---- MODULE Spec2Model ----
(***************************************************************************)
(* Lookahead scheduler of beatparakeet (src/audio/scheduler.js) and the    *)
(* Techno and Piano directors that consume its callbacks (src/Techno.jsx,  *)
(* src/Piano.jsx).                                                         *)
(*                                                                         *)
(* Time is fixed point: one unit is 1/TicksPerSec second.  Swing amounts   *)
(* are counted in SwingDen-ths.  The bpm values of the model divide the    *)
(* beat exactly, so every duration below is an exact integer; the rounding *)
(* of IEEE doubles is not part of the model.                               *)
(***************************************************************************)
EXTENDS Integers, Sequences, FiniteSets, TLC

VARIABLES
  now,            \* ctx.currentTime, the clock source
  bpm,            \* let bpm
  swing,          \* let swing, in SwingDen-ths
  nextNoteTime,   \* let nextNoteTime
  current16th,    \* let current16th
  barCount,       \* let barCount
  timerId,        \* let timerId (0 models null)
  timers,         \* interval timers armed in the host and not cleared
  nextTimerId,    \* the handle the host's next setInterval returns
  sincePoll,      \* clock time since the last poll, or since start()
  polled,         \* a poll has run since the last effective start()
  calls,          \* callback invocations made by the last poll, in order
  count16,        \* onSixteenth invocations since the last effective start()
  gridBase,       \* the nextNoteTime the last effective start() computed
  bpmSteady,      \* bpm has not changed since the last effective start()
  lastOp,         \* the operation that produced this state
  arrangementState, \* Techno: arrangementStateRef.current
  chordRef,       \* Techno: chordRef.current, an index into CHORD_SEQUENCE
  used,           \* Techno: per sixteenth event of the last poll, what it read
  app,            \* which component owns the scheduler: "techno" or "piano"
  repeatRef,      \* Piano: repeatRef.current
  fadeScheduledRef, \* Techno/Piano: fadeScheduledRef.current
  pendingStops,   \* number of armed setTimeout stop callbacks not yet fired
  fadeCount,      \* terminal fades scheduled since the last play()
  lastBar,        \* barCount handed to the last onBar since play(), -1 if none
  lookupArg,      \* bar the last onBar passed to getSectionForBar, -1 if none
  fn,             \* pure function under evaluation
  arg,            \* its input
  out,            \* its result
  done,           \* the function has been applied
  loaded,         \* Techno: roles whose soundfont instrument has resolved
  playingRef,     \* Techno: playingRef.current
  levelRefs,      \* Techno: energyRef and the bus level refs, in hundredths
  masterTarget,   \* Techno: who last set the master gain's automation target
  plays,          \* Techno: trigger instructions issued by the last poll
  progIdxRef,     \* App: progIdxRef.current
  barsSinceChangeRef, \* App: barsSinceChangeRef.current
  pendingToggles, \* App: toggle() invocations suspended at await ctx.resume()
  orphans,        \* App: running schedulers schedulerRef no longer points to
  barCallbacks,   \* App: onBar invocations since the last scheduler was created
  bassOn,         \* App with extras: the bassOn state of the last render
  onBarBassOn     \* App with extras: the bassOn the scheduler's onBar closed over

schedVars == <<nextNoteTime, current16th, barCount, timerId, timers>>
ghostVars == <<sincePoll, polled, calls, count16, gridBase, bpmSteady, lastOp>>
technoVars == <<arrangementState, chordRef, used>>
runVars == <<app, repeatRef, fadeScheduledRef, pendingStops, fadeCount, lastBar,
             lookupArg>>
pureVars == <<fn, arg, out, done>>
liveVars == <<loaded, playingRef, levelRefs, masterTarget, plays>>
appVars == <<progIdxRef, barsSinceChangeRef, pendingToggles, orphans,
             barCallbacks>>
extrasVars == <<bassOn, onBarBassOn>>
vars == <<now, bpm, swing, nextNoteTime, current16th, barCount, timerId,
          timers, nextTimerId, sincePoll, polled, calls, count16, gridBase,
          bpmSteady, lastOp, arrangementState, chordRef, used,
          app, repeatRef, fadeScheduledRef, pendingStops, fadeCount, lastBar,
          lookupArg,
          fn, arg, out, done,
          loaded, playingRef, levelRefs, masterTarget, plays,
          progIdxRef, barsSinceChangeRef, pendingToggles, orphans,
          barCallbacks, bassOn, onBarBassOn>>

----------------------------------------------------------------------------
(* Units and program constants *)

TicksPerSec == 8000
SwingDen == 20

DEFAULT_LOOKAHEAD_MS == 25
DEFAULT_SCHEDULE_AHEAD_SEC == TicksPerSec \div 5       \* 0.2 s
lookaheadTicks == (DEFAULT_LOOKAHEAD_MS * TicksPerSec) \div 1000
scheduleAheadSec == DEFAULT_SCHEDULE_AHEAD_SEC

(* Bounds of the exploration *)
MaxTime == 17000
MaxStarts == 2
MaxGap == 4000
MaxIdle == 1000
ClockSteps == {5 * lookaheadTicks, 20 * lookaheadTicks}
BpmValues == {60, 120}
OptSwings == {0, 4}                     \* 0.0 (Piano), 0.2 (App)
StartDelays == {TicksPerSec \div 20, TicksPerSec \div 10}   \* 0.05 s, 0.1 s

----------------------------------------------------------------------------
(* The scheduler's pure parts *)

\* IEEE +Infinity: a time beyond every clock reading plus look-ahead the model
\* reaches; sums and swing products of it stay beyond them and within 32 bits
Infinity == 16777216

\* 60.0 / bpm for any number bpm: 60 / 0 is Infinity, 60 / Infinity is 0
secondsPerBeat(b) ==
  IF b = 0 THEN Infinity
  ELSE IF b = Infinity THEN 0
  ELSE IF b < 0 THEN 0 - ((60 * TicksPerSec) \div (0 - b))
  ELSE (60 * TicksPerSec) \div b

sixteenthDur(b) == secondsPerBeat(b) \div 4

\* the swing delay applied to every slot instead of the off-8ths only
swingOffset_everySlot(ix16, sw, b) ==
  IF sw = 0 THEN 0 ELSE (sw * sixteenthDur(b)) \div SwingDen

swingOffset(ix16, sw, b) ==
  IF sw = 0 THEN 0
  ELSE IF ix16 % 4 = 2 THEN (sw * sixteenthDur(b)) \div SwingDen ELSE 0

\* s: [nextNoteTime, current16th, barCount, calls]
advance_barEveryStep(s, b) ==
  [s EXCEPT !.nextNoteTime = @ + secondsPerBeat(b) \div 4,
            !.current16th = (@ + 1) % 16,
            !.barCount = @ + 1]

advance(s, b) ==
  LET c == (s.current16th + 1) % 16 IN
  [s EXCEPT !.nextNoteTime = @ + secondsPerBeat(b) \div 4,
            !.current16th = c,
            !.barCount = IF c = 0 THEN @ + 1 ELSE @]

\* the two guarded callback invocations of one loop iteration; thr says which
\* invocations throw: thr.slot is the slot whose onSixteenth throws, thr.bar
\* whether onBar throws
emitSlot(s, sw, b, thr) ==
  LET c16 == [cb |-> "onSixteenth",
              time |-> s.nextNoteTime + swingOffset(s.current16th, sw, b),
              slot |-> s.current16th, bar |-> s.barCount,
              threw |-> (s.current16th = thr.slot)]
      cbar == [cb |-> "onBar", time |-> s.nextNoteTime,
               slot |-> s.current16th, bar |-> s.barCount, threw |-> thr.bar]
      c1 == Append(s.calls, c16)
  IN [s EXCEPT !.calls = IF s.current16th = 0 THEN Append(c1, cbar) ELSE c1]

\* without the try/catch an exception leaves the loop before advance()
RECURSIVE schedule_noCatch(_, _, _, _, _)
schedule_noCatch(s, t, sw, b, thr) ==
  IF s.nextNoteTime < t + scheduleAheadSec
  THEN LET e == emitSlot(s, sw, b, thr)
           n == Len(e.calls)
       IN IF e.calls[n].cb = "onSixteenth" /\ e.calls[n].threw
          THEN e
          ELSE IF e.calls[n].cb = "onBar" /\ e.calls[n - 1].threw
               THEN [e EXCEPT !.calls = SubSeq(@, 1, n - 1)]
               ELSE IF e.calls[n].threw
                    THEN e
                    ELSE schedule_noCatch(advance(e, b), t, sw, b, thr)
  ELSE s

\* no lookahead: only slots already due are emitted
RECURSIVE schedule_noLookahead(_, _, _, _, _)
schedule_noLookahead(s, t, sw, b, thr) ==
  IF s.nextNoteTime < t
  THEN schedule_noLookahead(advance(emitSlot(s, sw, b, thr), b), t, sw, b, thr)
  ELSE s

\* a late poll re-anchors the grid on the clock before emitting
RECURSIVE schedule_catchUp(_, _, _, _, _)
schedule_catchUp(s, t, sw, b, thr) ==
  IF s.nextNoteTime < t + scheduleAheadSec
  THEN LET s0 == IF s.nextNoteTime < t THEN [s EXCEPT !.nextNoteTime = t] ELSE s
       IN schedule_catchUp(advance(emitSlot(s0, sw, b, thr), b), t, sw, b, thr)
  ELSE s

\* schedule(): t is the clock reading taken at the start of the poll
RECURSIVE schedule(_, _, _, _, _)
schedule(s, t, sw, b, thr) ==
  IF s.nextNoteTime < t + scheduleAheadSec
  THEN schedule(advance(emitSlot(s, sw, b, thr), b), t, sw, b, thr)
  ELSE s

Max(a, b) == IF a > b THEN a ELSE b
Min(a, b) == IF a < b THEN a ELSE b

\* the clamp without its upper limit
clampSwing_noUpper(x) == Max(0, x)

\* Math.max(0, Math.min(0.75, x)); x in SwingDen-ths
clampSwing(x) == Max(0, Min((3 * SwingDen) \div 4, x))

Sixteenths(cs) == SelectSeq(cs, LAMBDA c : c.cb = "onSixteenth")

----------------------------------------------------------------------------
(* State after createScheduler(ctx, opts) *)

\* no pure function under evaluation
PureIdle ==
  /\ fn = "none"
  /\ arg = 0
  /\ out = 0
  /\ done = FALSE

\* master gain targets, in ten-thousandths
MasterFade == 1                          \* setTargetAtTime(0.0001, ...)
MasterPlay == 9000                       \* setTargetAtTime(0.9, ...)

\* updateEnergyCurve: target = 0.85 + amount * 0.1, energy in hundredths
energyTarget(energy) == 8500 + 10 * energy

EnergyValues == {60, 100}                \* the energy slider, in hundredths

\* Techno's live state at mount: nothing loaded yet, sliders at their defaults
DefaultLevels == [energy |-> 60, pad |-> 85, bass |-> 90, lead |-> 80]

LiveIdle ==
  /\ loaded = {}
  /\ playingRef = FALSE
  /\ levelRefs = DefaultLevels
  /\ masterTarget = energyTarget(DefaultLevels.energy)
  /\ plays = <<>>

\* App's refs at mount
AppIdle ==
  /\ progIdxRef = 0
  /\ barsSinceChangeRef = 0
  /\ pendingToggles = 0
  /\ orphans = {}
  /\ barCallbacks = 0

\* App with extras: not mounted
ExtrasIdle ==
  /\ bassOn = TRUE
  /\ onBarBassOn = TRUE

\* the refs of a mounted component before the first play()
RunIdle(a) ==
  /\ app = a
  /\ repeatRef = FALSE
  /\ fadeScheduledRef = FALSE
  /\ pendingStops = 0
  /\ fadeCount = 0
  /\ lastBar = -1
  /\ lookupArg = -1

Init ==
  /\ now = 0
  /\ bpm \in BpmValues
  /\ swing \in OptSwings
  /\ nextNoteTime = 0
  /\ current16th = 0
  /\ barCount = 0
  /\ timerId = 0
  /\ timers = {}
  /\ nextTimerId = 1
  /\ sincePoll = 0
  /\ polled = FALSE
  /\ calls = <<>>
  /\ count16 = 0
  /\ gridBase = 0
  /\ bpmSteady = TRUE
  /\ lastOp = "create"
  /\ arrangementState = [index |-> 0, offset |-> 0]
  /\ chordRef = "fm9"
  /\ used = <<>>
  /\ RunIdle("none")
  /\ PureIdle
  /\ LiveIdle
  /\ AppIdle
  /\ ExtrasIdle

(* The clock source advances on its own.  sincePoll is the time since the   *)
(* armed timer last fired (or was armed) and, with no timer armed, the time  *)
(* since stop() or construction.                                             *)
ClockAdvance(dt, limit) ==
  /\ now + dt <= limit
  /\ IF timers # {} THEN sincePoll + dt <= MaxGap
                     ELSE sincePoll + dt <= MaxIdle /\ nextTimerId <= MaxStarts
  /\ now' = now + dt
  /\ sincePoll' = sincePoll + dt
  /\ calls' = <<>>
  /\ lastOp' = "other"
  /\ UNCHANGED <<bpm, swing, schedVars, nextTimerId, polled, count16,
                 gridBase, bpmSteady>>

Tick(dt) ==
  /\ ClockAdvance(dt, MaxTime)
  /\ UNCHANGED <<technoVars, runVars, pureVars, liveVars, appVars, extrasVars>>

\* start() that arms a second interval while one is running
start_noGuard(startDelaySec) ==
  /\ nextTimerId <= MaxStarts
  /\ nextNoteTime' = now + startDelaySec
  /\ current16th' = 0
  /\ barCount' = 0
  /\ timerId' = nextTimerId
  /\ timers' = timers \cup {nextTimerId}
  /\ nextTimerId' = nextTimerId + 1
  /\ sincePoll' = 0
  /\ polled' = FALSE
  /\ count16' = 0
  /\ gridBase' = now + startDelaySec
  /\ bpmSteady' = TRUE

\* start(startDelaySec)
start(startDelaySec) ==
  IF timerId # 0
  THEN UNCHANGED <<schedVars, nextTimerId, sincePoll, polled, count16,
                   gridBase, bpmSteady>>
  ELSE /\ nextTimerId <= MaxStarts
       /\ nextNoteTime' = now + startDelaySec
       /\ current16th' = 0
       /\ barCount' = 0
       /\ timerId' = nextTimerId
       /\ timers' = timers \cup {nextTimerId}
       /\ nextTimerId' = nextTimerId + 1
       /\ sincePoll' = 0
       /\ polled' = FALSE
       /\ count16' = 0
       /\ gridBase' = now + startDelaySec
       /\ bpmSteady' = TRUE

Start(startDelaySec) ==
  /\ start(startDelaySec)
  /\ calls' = <<>>
  /\ lastOp' = "start"
  /\ UNCHANGED <<now, bpm, swing, technoVars, runVars, pureVars, liveVars, appVars, extrasVars>>

\* stop() that forgets the handle without clearing the interval
stop_noClear ==
  /\ timerId' = 0
  /\ UNCHANGED timers

\* stop()
stop ==
  IF timerId # 0
  THEN /\ timers' = timers \ {timerId}
       /\ timerId' = 0
  ELSE UNCHANGED <<timerId, timers>>

\* stop() that also rewinds the position
Stop_rewinds ==
  /\ stop
  /\ calls' = <<>>
  /\ sincePoll' = IF timerId # 0 /\ timers' = {} THEN 0 ELSE sincePoll
  /\ lastOp' = "stop"
  /\ current16th' = 0
  /\ barCount' = 0
  /\ UNCHANGED <<now, bpm, swing, nextNoteTime,
                 nextTimerId, polled, count16, gridBase,
                 bpmSteady, technoVars, runVars, pureVars, liveVars, appVars, extrasVars>>

\* getState()
getState ==
  [nextNoteTime |-> nextNoteTime, current16th |-> current16th,
   barCount |-> barCount, bpm |-> bpm]

Stop ==
  /\ stop
  /\ calls' = <<>>
  /\ sincePoll' = IF timerId # 0 /\ timers' = {} THEN 0 ELSE sincePoll
  /\ lastOp' = "stop"
  /\ UNCHANGED <<now, bpm, swing, nextNoteTime, current16th, barCount,
                 nextTimerId, polled, count16, gridBase,
                 bpmSteady, technoVars, runVars, pureVars, liveVars, appVars, extrasVars>>

\* one firing of the interval timer id: schedule() runs to completion
Poll(id, thr) ==
  /\ id \in timers
  /\ sincePoll >= lookaheadTicks
  /\ LET r == schedule([nextNoteTime |-> nextNoteTime, current16th |-> current16th,
                        barCount |-> barCount, calls |-> <<>>],
                       now, swing, bpm, thr)
     IN /\ nextNoteTime' = r.nextNoteTime
        /\ current16th' = r.current16th
        /\ barCount' = r.barCount
        /\ calls' = r.calls
        /\ count16' = count16 + Len(Sixteenths(r.calls))
  /\ sincePoll' = 0
  /\ polled' = TRUE
  /\ lastOp' = "poll"
  /\ UNCHANGED <<now, bpm, swing, timerId, timers, nextTimerId, gridBase,
                 bpmSteady, technoVars, runVars, pureVars, liveVars, appVars, extrasVars>>

\* setBpm that rescales the pending event to the new tempo
setBpm_retroactive(newBpm) ==
  /\ bpm' = newBpm
  /\ nextNoteTime' = nextNoteTime - sixteenthDur(bpm) + sixteenthDur(newBpm)

\* setBpm(newBpm)
setBpm(newBpm) ==
  /\ bpm' = newBpm
  /\ UNCHANGED nextNoteTime

SetBpm(newBpm) ==
  /\ setBpm(newBpm)
  /\ bpmSteady' = (bpmSteady /\ newBpm = bpm)
  /\ calls' = <<>>
  /\ lastOp' = "other"
  /\ UNCHANGED <<now, swing, current16th, barCount, timerId, timers,
                 nextTimerId, sincePoll, polled, count16, gridBase, technoVars, runVars, pureVars, liveVars, appVars, extrasVars>>

\* setSwing(newSwing); x.isNum is whether Number(newSwing) is a number
\* setSwing that keeps a negative amount
setSwing_noLower(x) ==
  swing' = Min((3 * SwingDen) \div 4, IF x.isNum THEN x.v ELSE 0)

\* setSwing(newSwing); x.isNum is FALSE when Number(newSwing) is NaN
setSwing(x) ==
  swing' = clampSwing(IF x.isNum THEN x.v ELSE 0)

SetSwing(x) ==
  /\ setSwing(x)
  /\ calls' = <<>>
  /\ lastOp' = "other"
  /\ UNCHANGED <<now, bpm, schedVars, nextTimerId, sincePoll, polled, count16,
                 gridBase, bpmSteady, technoVars, runVars, pureVars, liveVars, appVars, extrasVars>>

SwingInputs ==
  {[isNum |-> TRUE, v |-> -5], [isNum |-> TRUE, v |-> 20], [isNum |-> FALSE, v |-> 0]}

Throws == {[slot |-> -1, bar |-> FALSE], [slot |-> 0, bar |-> FALSE],
           [slot |-> 2, bar |-> TRUE]}

Next ==
  \/ \E dt \in ClockSteps : Tick(dt)
  \/ \E d \in StartDelays : Start(d)
  \/ Stop
  \/ \E id \in timers, thr \in Throws : Poll(id, thr)
  \/ \E b \in BpmValues : SetBpm(b)
  \/ \E x \in SwingInputs : SetSwing(x)

Spec == Init /\ [][Next]_vars

----------------------------------------------------------------------------
(* Techno.jsx: the director driven by the scheduler's callbacks *)

\* section.bars of ARRANGEMENT, in order
ARRANGEMENT == <<16, 32, 32, 16, 32, 24, 16>>

RECURSIVE SumBars(_)
SumBars(n) == IF n = 0 THEN 0 ELSE SumBars(n - 1) + ARRANGEMENT[n]

TOTAL_BARS == SumBars(Len(ARRANGEMENT))

CHORD_SEQUENCE == <<"fm9", "dbMaj9", "eb7sus", "c7", "fm9", "abMaj9", "bbMin9", "c7">>

RECURSIVE sectionScan_inclusiveEnd(_, _, _)
sectionScan_inclusiveEnd(bar, i, cursor) ==
  IF i < Len(ARRANGEMENT)
  THEN LET end == cursor + ARRANGEMENT[i + 1] IN
       IF bar <= end
       THEN [index |-> i, offset |-> bar - cursor, isSectionStart |-> (bar = cursor)]
       ELSE sectionScan_inclusiveEnd(bar, i + 1, end)
  ELSE [index |-> Len(ARRANGEMENT) - 1,
        offset |-> ARRANGEMENT[Len(ARRANGEMENT)] - 1,
        isSectionStart |-> FALSE]

RECURSIVE sectionScan_clampPastEnd(_, _, _)
sectionScan_clampPastEnd(bar, i, cursor) ==
  IF i < Len(ARRANGEMENT)
  THEN LET end == cursor + ARRANGEMENT[i + 1] IN
       IF bar < end
       THEN [index |-> i, offset |-> bar - cursor, isSectionStart |-> (bar = cursor)]
       ELSE sectionScan_clampPastEnd(bar, i + 1, end)
  ELSE [index |-> Len(ARRANGEMENT) - 1,
        offset |-> ARRANGEMENT[Len(ARRANGEMENT)],
        isSectionStart |-> FALSE]

\* the loop of getSectionForBar from section i (0-based) with the running cursor
RECURSIVE sectionScan(_, _, _)
sectionScan(bar, i, cursor) ==
  IF i < Len(ARRANGEMENT)
  THEN LET end == cursor + ARRANGEMENT[i + 1] IN
       IF bar < end
       THEN [index |-> i, offset |-> bar - cursor, isSectionStart |-> (bar = cursor)]
       ELSE sectionScan(bar, i + 1, end)
  ELSE [index |-> Len(ARRANGEMENT) - 1,
        offset |-> ARRANGEMENT[Len(ARRANGEMENT)] - 1,
        isSectionStart |-> FALSE]

getSectionForBar_skipFirst(bar) == sectionScan(bar, 1, ARRANGEMENT[1])

getSectionForBar(bar) == sectionScan(bar, 0, 0)

chordFor_noWrap(seq, bar) == seq[Min(bar, Len(seq) - 1) + 1]

\* the chord of a bar: CHORD_SEQUENCE[bar % CHORD_SEQUENCE.length]
chordFor(seq, bar) == seq[(bar % Len(seq)) + 1]

\* handleSixteenth: what the event reads from the refs
handleSixteenth(d, c) ==
  [d EXCEPT !.used = Append(@, [slot |-> c.slot, bar |-> c.bar,
                                chord |-> d.chordRef,
                                index |-> d.arrangementState.index,
                                offset |-> d.arrangementState.offset])]

handleBar_noTimer(d, c) ==
  LET fade == c.bar >= TOTAL_BARS /\ ~d.fadeScheduledRef
  IN [d EXCEPT !.arrangementState = getSectionForBar(c.bar),
               !.chordRef = chordFor(CHORD_SEQUENCE, c.bar),
               !.fadeScheduledRef = @ \/ fade,
               !.fadeCount = IF fade THEN @ + 1 ELSE @,
               !.masterTarget = IF fade THEN MasterFade ELSE @,
               !.lastBar = c.bar,
               !.lookupArg = c.bar]

\* handleBar: the refs it writes, the fade it schedules and the timer it arms
handleBar(d, c) ==
  LET fade == c.bar >= TOTAL_BARS /\ ~d.fadeScheduledRef
  IN [d EXCEPT !.arrangementState = getSectionForBar(c.bar),
               !.chordRef = chordFor(CHORD_SEQUENCE, c.bar),
               !.fadeScheduledRef = @ \/ fade,
               !.pendingStops = IF fade THEN @ + 1 ELSE @,
               !.fadeCount = IF fade THEN @ + 1 ELSE @,
               !.masterTarget = IF fade THEN MasterFade ELSE @,
               !.lastBar = c.bar,
               !.lookupArg = c.bar]

\* the callbacks of one poll, applied in invocation order
RECURSIVE director(_, _, _)
director(d, cs, i) ==
  IF i > Len(cs) THEN d
  ELSE director(IF cs[i].cb = "onSixteenth" THEN handleSixteenth(d, cs[i])
                ELSE handleBar(d, cs[i]),
                cs, i + 1)

\* the refs the callbacks read and write, as one record
refs ==
  [arrangementState |-> arrangementState, chordRef |-> chordRef, used |-> <<>>,
   repeatRef |-> repeatRef, fadeScheduledRef |-> fadeScheduledRef,
   pendingStops |-> pendingStops, fadeCount |-> fadeCount,
   lastBar |-> lastBar, lookupArg |-> lookupArg, masterTarget |-> masterTarget]

TechnoMaxTime == 40000
TechnoBpmValues == {120, 125}
TechnoSwing == 2                         \* swing: 0.1
TechnoStartDelay == TicksPerSec \div 10  \* start(0.1)
NoThrow == [slot |-> -1, bar |-> FALSE]

(* State after the mount effect of <Techno/> *)
TechnoInit ==
  /\ now = 0
  /\ bpm \in TechnoBpmValues
  /\ swing = TechnoSwing
  /\ nextNoteTime = 0
  /\ current16th = 0
  /\ barCount = 0
  /\ timerId = 0
  /\ timers = {}
  /\ nextTimerId = 1
  /\ sincePoll = 0
  /\ polled = FALSE
  /\ calls = <<>>
  /\ count16 = 0
  /\ gridBase = 0
  /\ bpmSteady = TRUE
  /\ lastOp = "create"
  /\ arrangementState = [index |-> 0, offset |-> 0]
  /\ chordRef = CHORD_SEQUENCE[1]
  /\ used = <<>>
  /\ RunIdle("techno")
  /\ PureIdle
  /\ LiveIdle
  /\ AppIdle
  /\ ExtrasIdle

TechnoTick(dt) ==
  /\ ClockAdvance(dt, TechnoMaxTime)
  /\ used' = <<>>
  /\ UNCHANGED <<arrangementState, chordRef, runVars, pureVars, liveVars, appVars, extrasVars>>

\* play(), offered by the button while playing is false
TechnoPlay ==
  /\ timerId = 0
  /\ arrangementState' = [index |-> 0, offset |-> 0]
  /\ chordRef' = CHORD_SEQUENCE[1]
  /\ start(TechnoStartDelay)
  /\ calls' = <<>>
  /\ used' = <<>>
  /\ lastOp' = "start"
  /\ fadeScheduledRef' = FALSE
  /\ fadeCount' = 0
  /\ lastBar' = -1
  /\ lookupArg' = -1
  /\ masterTarget' = MasterPlay
  /\ UNCHANGED <<now, bpm, swing, app, repeatRef, pendingStops, pureVars, loaded, playingRef, levelRefs, plays, appVars, extrasVars>>

\* stop(), offered by the button while playing is true
TechnoStop ==
  /\ timerId # 0
  /\ stop
  /\ calls' = <<>>
  /\ used' = <<>>
  /\ sincePoll' = 0
  /\ lastOp' = "stop"
  /\ masterTarget' = MasterPlay
  /\ UNCHANGED <<now, bpm, swing, nextNoteTime, current16th, barCount,
                 nextTimerId, polled, count16, gridBase, bpmSteady,
                 arrangementState, chordRef, runVars, pureVars, loaded, playingRef, levelRefs, plays, appVars, extrasVars>>

\* one firing of the interval with handleSixteenth/handleBar as callbacks
TechnoPoll(id) ==
  /\ id \in timers
  /\ sincePoll >= lookaheadTicks
  /\ LET r == schedule([nextNoteTime |-> nextNoteTime, current16th |-> current16th,
                        barCount |-> barCount, calls |-> <<>>],
                       now, swing, bpm, NoThrow)
         d == director(refs, r.calls, 1)
     IN /\ nextNoteTime' = r.nextNoteTime
        /\ current16th' = r.current16th
        /\ barCount' = r.barCount
        /\ calls' = r.calls
        /\ count16' = count16 + Len(Sixteenths(r.calls))
        /\ arrangementState' = d.arrangementState
        /\ chordRef' = d.chordRef
        /\ used' = d.used
        /\ fadeScheduledRef' = d.fadeScheduledRef
        /\ pendingStops' = d.pendingStops
        /\ fadeCount' = d.fadeCount
        /\ lastBar' = d.lastBar
        /\ lookupArg' = d.lookupArg
        /\ masterTarget' = d.masterTarget
  /\ sincePoll' = 0
  /\ polled' = TRUE
  /\ lastOp' = "poll"
  /\ UNCHANGED <<now, bpm, swing, timerId, timers, nextTimerId, gridBase, bpmSteady,
                 app, repeatRef, pureVars, loaded, playingRef, levelRefs, plays, appVars, extrasVars>>

\* the bpm effect: bpmRef.current = bpm; scheduler.setBpm(bpm)
TechnoSetBpm(newBpm) ==
  /\ setBpm(newBpm)
  /\ bpmSteady' = (bpmSteady /\ newBpm = bpm)
  /\ calls' = <<>>
  /\ used' = <<>>
  /\ lastOp' = "other"
  /\ UNCHANGED <<now, swing, current16th, barCount, timerId, timers,
                 nextTimerId, sincePoll, polled, count16, gridBase,
                 arrangementState, chordRef, runVars, pureVars, liveVars, appVars, extrasVars>>

TechnoNext ==
  \/ \E dt \in ClockSteps : TechnoTick(dt)
  \/ TechnoPlay
  \/ TechnoStop
  \/ \E id \in timers : TechnoPoll(id)
  \/ \E b \in TechnoBpmValues : TechnoSetBpm(b)

SpecTechno == TechnoInit /\ [][TechnoNext]_vars

----------------------------------------------------------------------------
(* Piano.jsx: arrangement and chords *)

\* section.bars of Piano's ARRANGEMENT, in order
PIANO_ARRANGEMENT == <<16, 24, 20, 28, 18>>

RECURSIVE PianoSumBars(_)
PianoSumBars(n) == IF n = 0 THEN 0 ELSE PianoSumBars(n - 1) + PIANO_ARRANGEMENT[n]

PIANO_TOTAL_BARS == PianoSumBars(Len(PIANO_ARRANGEMENT))

PIANO_CHORD_SEQUENCE == <<"dm9", "bbMaj7", "fMaj9", "cAdd9", "gm9", "dm9", "bbMaj7", "aSus">>

\* the loop of Piano's getSectionForBar from section i (0-based)
RECURSIVE pianoSectionScan(_, _, _)
pianoSectionScan(bar, i, cursor) ==
  IF i < Len(PIANO_ARRANGEMENT)
  THEN LET end == cursor + PIANO_ARRANGEMENT[i + 1] IN
       IF bar < end
       THEN [index |-> i, offset |-> bar - cursor, isSectionStart |-> (bar = cursor)]
       ELSE pianoSectionScan(bar, i + 1, end)
  ELSE [index |-> Len(PIANO_ARRANGEMENT) - 1,
        offset |-> PIANO_ARRANGEMENT[Len(PIANO_ARRANGEMENT)] - 1,
        isSectionStart |-> FALSE]

pianoGetSectionForBar(bar) == pianoSectionScan(bar, 0, 0)

\* CHORD_LIBRARY[name].piano and .bass of Piano.jsx; "bare" and "empty" are
\* chord objects outside the library: one without a piano list, one with []
PIANO_CHORD_LIBRARY ==
  [dm9    |-> [hasPiano |-> TRUE, piano |-> <<"D4", "A4", "C5", "E5", "F5", "A5">>,
               bass |-> [root |-> "D2", fifth |-> "A2", octave |-> "D3"]],
   bbMaj7 |-> [hasPiano |-> TRUE, piano |-> <<"Bb3", "F4", "A4", "C5", "D5", "F5">>,
               bass |-> [root |-> "Bb1", fifth |-> "F2", octave |-> "Bb2"]],
   fMaj9  |-> [hasPiano |-> TRUE, piano |-> <<"F3", "C4", "E4", "G4", "A4", "C5">>,
               bass |-> [root |-> "F2", fifth |-> "C3", octave |-> "F3"]],
   cAdd9  |-> [hasPiano |-> TRUE, piano |-> <<"C4", "G4", "D5", "E5", "G5", "B5">>,
               bass |-> [root |-> "C2", fifth |-> "G2", octave |-> "C3"]],
   gm9    |-> [hasPiano |-> TRUE, piano |-> <<"G3", "D4", "F4", "A4", "Bb4", "D5">>,
               bass |-> [root |-> "G2", fifth |-> "D3", octave |-> "G3"]],
   am7    |-> [hasPiano |-> TRUE, piano |-> <<"A3", "E4", "G4", "C5", "D5", "E5">>,
               bass |-> [root |-> "A2", fifth |-> "E3", octave |-> "A3"]],
   aSus   |-> [hasPiano |-> TRUE, piano |-> <<"A3", "E4", "B4", "D5", "E5", "A5">>,
               bass |-> [root |-> "A2", fifth |-> "E3", octave |-> "A3"]],
   empty  |-> [hasPiano |-> TRUE, piano |-> <<>>,
               bass |-> [root |-> "C2", fifth |-> "G2", octave |-> "C3"]],
   bare   |-> [hasPiano |-> FALSE, piano |-> <<>>,
               bass |-> [root |-> "C2", fifth |-> "G2", octave |-> "C3"]]]

\* CHORD_LIBRARY[name].lead of Techno.jsx
LEAD ==
  [fm9    |-> <<"C5", "Eb5", "F5", "G5", "Bb5", "C6">>,
   dbMaj9 |-> <<"Ab4", "C5", "Db5", "F5", "G5", "Ab5">>,
   eb7sus |-> <<"Bb4", "Db5", "Eb5", "F5", "G5", "Bb5">>,
   c7     |-> <<"G4", "Bb4", "C5", "D5", "E5", "G5">>,
   bbMin9 |-> <<"F4", "Ab4", "Bb4", "C5", "Db5", "F5">>,
   abMaj9 |-> <<"Eb4", "G4", "Ab4", "Bb4", "C5", "Eb5">>]

\* JavaScript list[i]: undefined outside 0 .. length-1
at(list, i) == IF i \in 0..(Len(list) - 1) THEN list[i + 1] ELSE "undefined"

\* JavaScript a % n on integers: the remainder takes the sign of a
jsRem(a, n) == IF a >= 0 THEN a % n ELSE -((-a) % n)

normalize_noShift(degree, n) == jsRem(degree, n)

\* the index normalisation of resolveDegree
normalize(degree, n) == jsRem(jsRem(degree, n) + n, n)

\* resolveDegree(chord, degree): degree.str is "" for a number, else the string
resolveDegree(chord, degree) ==
  IF degree.str # ""
  THEN IF degree.str = "bass" THEN [note |-> chord.bass.root, threw |-> FALSE]
       ELSE IF degree.str = "fifth" THEN [note |-> chord.bass.fifth, threw |-> FALSE]
       ELSE IF degree.str = "octave" THEN [note |-> chord.bass.octave, threw |-> FALSE]
       ELSE IF chord.hasPiano THEN [note |-> at(chord.piano, 0), threw |-> FALSE]
       ELSE [note |-> "undefined", threw |-> TRUE]
  ELSE LET list == IF chord.hasPiano THEN chord.piano ELSE <<>> IN
       IF Len(list) = 0 THEN [note |-> "C4", threw |-> FALSE]
       ELSE [note |-> at(list, normalize(degree.num, Len(list))), threw |-> FALSE]

leadIndex_offByOne(length, idx) == Min(length, idx)

\* the index triggerLead reads from chord.lead
leadIndex(length, idx) == Min(length - 1, idx)

\* triggerLead(time, chord, event, leadAmt) with idx = event.idx; ready is
\* nodes.leadInstrument && playingRef.current
triggerLead(chord, idx, ready) ==
  IF ~ready THEN [played |-> FALSE, note |-> "undefined", threw |-> FALSE]
  ELSE [played |-> TRUE, note |-> at(LEAD[chord], leadIndex(Len(LEAD[chord]), idx)),
        threw |-> FALSE]

----------------------------------------------------------------------------
(* The pure functions of the directors, each applied once to an input *)

MaxOver == 4       \* bars past the end of the arrangement
MaxIdx == 8        \* largest lead event index
MaxDegree == 13    \* largest degree, in absolute value
MaxSwingIn == 25   \* largest swing argument, in SwingDen-ths (1.25)

DegreeStrings == {"bass", "fifth", "octave", "top"}

PureInputs ==
  {[fn |-> "getSectionForBar", arg |-> [bar |-> b]] : b \in 0..(TOTAL_BARS + MaxOver)}
  \cup {[fn |-> "pianoGetSectionForBar", arg |-> [bar |-> b]] :
          b \in 0..(PIANO_TOTAL_BARS + MaxOver)}
  \cup {[fn |-> "triggerLead", arg |-> [chord |-> c, idx |-> i, ready |-> r]] :
          c \in DOMAIN LEAD, i \in 0..MaxIdx, r \in BOOLEAN}
  \cup {[fn |-> "resolveDegree", arg |-> [chord |-> c, degree |-> [str |-> "", num |-> d]]] :
          c \in DOMAIN PIANO_CHORD_LIBRARY, d \in (-MaxDegree)..MaxDegree}
  \cup {[fn |-> "resolveDegree", arg |-> [chord |-> c, degree |-> [str |-> s, num |-> 0]]] :
          c \in DOMAIN PIANO_CHORD_LIBRARY, s \in DegreeStrings}
  \cup {[fn |-> "setSwing", arg |-> [isNum |-> n, v |-> x]] :
          n \in BOOLEAN, x \in (-MaxSwingIn)..MaxSwingIn}

PureInit ==
  /\ now = 0
  /\ bpm = 120
  /\ swing = 0
  /\ nextNoteTime = 0
  /\ current16th = 0
  /\ barCount = 0
  /\ timerId = 0
  /\ timers = {}
  /\ nextTimerId = 1
  /\ sincePoll = 0
  /\ polled = FALSE
  /\ calls = <<>>
  /\ count16 = 0
  /\ gridBase = 0
  /\ bpmSteady = TRUE
  /\ lastOp = "create"
  /\ arrangementState = [index |-> 0, offset |-> 0]
  /\ chordRef = "fm9"
  /\ used = <<>>
  /\ RunIdle("none")
  /\ \E i \in PureInputs : fn = i.fn /\ arg = i.arg
  /\ out = [note |-> ""]
  /\ done = FALSE
  /\ LiveIdle
  /\ AppIdle
  /\ ExtrasIdle

Apply(f, result) ==
  /\ fn = f
  /\ ~done
  /\ out' = result
  /\ done' = TRUE
  /\ UNCHANGED <<now, bpm, swing, nextTimerId, schedVars, ghostVars, technoVars,
                 runVars, fn, arg, liveVars, appVars, extrasVars>>

ApplyGetSectionForBar == Apply("getSectionForBar", getSectionForBar(arg.bar))

ApplyPianoGetSectionForBar ==
  Apply("pianoGetSectionForBar", pianoGetSectionForBar(arg.bar))

ApplyTriggerLead == Apply("triggerLead", triggerLead(arg.chord, arg.idx, arg.ready))

ApplyResolveDegree ==
  Apply("resolveDegree", resolveDegree(PIANO_CHORD_LIBRARY[arg.chord], arg.degree))

\* scheduler.setSwing(arg) on a stopped scheduler
ApplySetSwing ==
  /\ fn = "setSwing"
  /\ ~done
  /\ setSwing(arg)
  /\ done' = TRUE
  /\ UNCHANGED <<now, bpm, nextTimerId, schedVars, ghostVars, technoVars,
                 runVars, fn, arg, out, liveVars, appVars, extrasVars>>

PureNext ==
  \/ ApplyGetSectionForBar
  \/ ApplyPianoGetSectionForBar
  \/ ApplyTriggerLead
  \/ ApplyResolveDegree
  \/ ApplySetSwing

SpecPure == PureInit /\ [][PureNext]_vars

----------------------------------------------------------------------------
(* A whole performance of Techno or Piano.  The clock is left out: now and  *)
(* nextNoteTime stay put, and every firing of the interval finds exactly    *)
(* one slot due, so a poll is one iteration of schedule()'s loop.  The      *)
(* deferred stop fires at any moment after it was armed.                    *)

effectiveBar_noWrap(repeat, bar) == bar

\* repeat mode wraps the bar handed to the resolver and to the chord sequence
effectiveBar(repeat, bar) == IF repeat THEN bar % PIANO_TOTAL_BARS ELSE bar

\* Piano's handleSixteenth: what the event reads from the refs
pianoHandleSixteenth(d, c) ==
  [d EXCEPT !.used = Append(@, [slot |-> c.slot, bar |-> c.bar,
                                chord |-> d.chordRef,
                                index |-> d.arrangementState.index,
                                offset |-> d.arrangementState.offset])]

\* Piano's handleBar: the refs it writes and the timer it arms
pianoHandleBar(d, c) ==
  LET eff == effectiveBar(d.repeatRef, c.bar)
      fade == ~d.fadeScheduledRef
  IN IF ~d.repeatRef /\ c.bar >= PIANO_TOTAL_BARS
     THEN [d EXCEPT !.fadeScheduledRef = TRUE,
                    !.pendingStops = IF fade THEN @ + 1 ELSE @,
                    !.fadeCount = IF fade THEN @ + 1 ELSE @,
                    !.lastBar = c.bar]
     ELSE [d EXCEPT !.arrangementState = pianoGetSectionForBar(eff),
                    !.chordRef = chordFor(PIANO_CHORD_SEQUENCE, eff),
                    !.lastBar = c.bar,
                    !.lookupArg = eff]

\* the callbacks of one poll of Piano's scheduler, in invocation order
RECURSIVE pianoDirector(_, _, _)
pianoDirector(d, cs, i) ==
  IF i > Len(cs) THEN d
  ELSE pianoDirector(IF cs[i].cb = "onSixteenth" THEN pianoHandleSixteenth(d, cs[i])
                     ELSE pianoHandleBar(d, cs[i]),
                     cs, i + 1)

Apps == {"techno", "piano"}
Total(a) == IF a = "piano" THEN PIANO_TOTAL_BARS ELSE TOTAL_BARS
ChordSeq(a) == IF a = "piano" THEN PIANO_CHORD_SEQUENCE ELSE CHORD_SEQUENCE
RunBpmValues(a) == IF a = "piano" THEN {60, 75} ELSE TechnoBpmValues
MaxFades == 2      \* fades per run after which repeat is not switched on again

(* State after the mount effect of <Techno/> or <Piano/>; Piano reads repeat *)
(* from localStorage                                                         *)
RunInit ==
  /\ app \in Apps
  /\ now = 0
  /\ bpm = IF app = "piano" THEN 60 ELSE 120
  /\ swing = IF app = "piano" THEN 0 ELSE TechnoSwing
  /\ nextNoteTime = 0
  /\ current16th = 0
  /\ barCount = 0
  /\ timerId = 0
  /\ timers = {}
  /\ nextTimerId = 1
  /\ sincePoll = 0
  /\ polled = FALSE
  /\ calls = <<>>
  /\ count16 = 0
  /\ gridBase = 0
  /\ bpmSteady = TRUE
  /\ lastOp = "create"
  /\ arrangementState = [index |-> 0, offset |-> 0]
  /\ chordRef = ChordSeq(app)[1]
  /\ used = <<>>
  /\ repeatRef \in (IF app = "piano" THEN BOOLEAN ELSE {FALSE})
  /\ fadeScheduledRef = FALSE
  /\ pendingStops = 0
  /\ fadeCount = 0
  /\ lastBar = -1
  /\ lookupArg = -1
  /\ PureIdle
  /\ LiveIdle
  /\ AppIdle
  /\ ExtrasIdle

\* play(), offered by the button while playing is false
RunPlay ==
  /\ timerId = 0
  /\ arrangementState' = [index |-> 0, offset |-> 0]
  /\ chordRef' = ChordSeq(app)[1]
  /\ start(TechnoStartDelay)
  /\ calls' = <<>>
  /\ used' = <<>>
  /\ lastOp' = "start"
  /\ fadeScheduledRef' = FALSE
  /\ fadeCount' = 0
  /\ lastBar' = -1
  /\ lookupArg' = -1
  /\ masterTarget' = IF app = "techno" THEN MasterPlay ELSE masterTarget
  /\ UNCHANGED <<now, bpm, swing, app, repeatRef, pendingStops, pureVars, loaded, playingRef, levelRefs, plays, appVars, extrasVars>>

\* stop(), offered by the button while playing is true
RunStop ==
  /\ timerId # 0
  /\ stop
  /\ calls' = <<>>
  /\ used' = <<>>
  /\ lastOp' = "stop"
  /\ masterTarget' = IF app = "techno" THEN MasterPlay ELSE masterTarget
  /\ UNCHANGED <<now, bpm, swing, nextNoteTime, current16th, barCount,
                 nextTimerId, sincePoll, polled, count16, gridBase, bpmSteady,
                 arrangementState, chordRef, runVars, pureVars, loaded, playingRef, levelRefs, plays, appVars, extrasVars>>

\* one firing of the interval that finds one slot due
RunPoll(id) ==
  /\ id \in timers
  /\ barCount <= Total(app) + MaxOver
  /\ LET e == emitSlot([nextNoteTime |-> nextNoteTime, current16th |-> current16th,
                        barCount |-> barCount, calls |-> <<>>],
                       swing, bpm, NoThrow)
         a == advance(e, bpm)
         d == IF app = "piano" THEN pianoDirector(refs, e.calls, 1)
              ELSE director(refs, e.calls, 1)
     IN /\ current16th' = a.current16th
        /\ barCount' = a.barCount
        /\ calls' = e.calls
        /\ count16' = count16 + 1
        /\ arrangementState' = d.arrangementState
        /\ chordRef' = d.chordRef
        /\ used' = d.used
        /\ fadeScheduledRef' = d.fadeScheduledRef
        /\ pendingStops' = d.pendingStops
        /\ fadeCount' = d.fadeCount
        /\ lastBar' = d.lastBar
        /\ lookupArg' = d.lookupArg
        /\ masterTarget' = d.masterTarget
  /\ polled' = TRUE
  /\ lastOp' = "poll"
  /\ UNCHANGED <<now, bpm, swing, nextNoteTime, timerId, timers, nextTimerId,
                 sincePoll, gridBase, bpmSteady, app, repeatRef, pureVars, loaded, playingRef, levelRefs, plays, appVars, extrasVars>>

\* the callback of the setTimeout armed by the fade branch of handleBar
FireStop ==
  /\ pendingStops > 0
  /\ pendingStops' = pendingStops - 1
  /\ stop
  /\ calls' = <<>>
  /\ used' = <<>>
  /\ lastOp' = "timeout"
  /\ UNCHANGED <<now, bpm, swing, nextNoteTime, current16th, barCount,
                 nextTimerId, sincePoll, polled, count16, gridBase, bpmSteady,
                 arrangementState, chordRef, app, repeatRef, fadeScheduledRef,
                 fadeCount, lastBar, lookupArg, pureVars, liveVars, appVars, extrasVars>>

\* Piano's repeat checkbox and the effect that follows the state change
SetRepeat(v) ==
  /\ app = "piano"
  /\ v # repeatRef
  /\ v => fadeCount < MaxFades
  /\ repeatRef' = v
  /\ fadeScheduledRef' = IF v THEN FALSE ELSE fadeScheduledRef
  /\ calls' = <<>>
  /\ used' = <<>>
  /\ lastOp' = "other"
  /\ UNCHANGED <<now, bpm, swing, schedVars, nextTimerId, sincePoll, polled,
                 count16, gridBase, bpmSteady, arrangementState, chordRef,
                 app, pendingStops, fadeCount, lastBar, lookupArg, pureVars, liveVars, appVars, extrasVars>>

\* the bpm slider and its effect
RunSetBpm(newBpm) ==
  /\ newBpm # bpm
  /\ setBpm(newBpm)
  /\ bpmSteady' = FALSE
  /\ calls' = <<>>
  /\ used' = <<>>
  /\ lastOp' = "other"
  /\ UNCHANGED <<now, swing, current16th, barCount, timerId, timers,
                 nextTimerId, sincePoll, polled, count16, gridBase,
                 arrangementState, chordRef, runVars, pureVars, liveVars, appVars, extrasVars>>

\* Techno's energy slider and its effect:
\* energyRef.current = energy; updateEnergyCurve()
RunSetEnergy(e) ==
  /\ app = "techno"
  /\ e # levelRefs.energy
  /\ levelRefs' = [levelRefs EXCEPT !.energy = e]
  /\ masterTarget' = energyTarget(e)
  /\ calls' = <<>>
  /\ used' = <<>>
  /\ lastOp' = "other"
  /\ UNCHANGED <<now, bpm, swing, schedVars, nextTimerId, sincePoll, polled,
                 count16, gridBase, bpmSteady, arrangementState, chordRef,
                 runVars, pureVars, loaded, playingRef, plays, appVars, extrasVars>>

RunNext ==
  \/ RunPlay
  \/ RunStop
  \/ \E id \in timers : RunPoll(id)
  \/ FireStop
  \/ \E v \in BOOLEAN : SetRepeat(v)
  \/ \E b \in RunBpmValues(app) : RunSetBpm(b)
  \/ \E e \in EnergyValues : RunSetEnergy(e)

SpecRun == RunInit /\ [][RunNext]_vars

\* timers fire: an armed deferred stop is eventually run
SpecRunFair == SpecRun /\ WF_vars(FireStop)

----------------------------------------------------------------------------
(* Techno at trigger level.  The callbacks of one poll are followed down to
   the trigger functions: the kick of handleSixteenth (an oscillator voice),
   its bass and lead events (soundfont voices) and the pad chord of handleBar.
   Hats, claps and effects are oscillator and noise voices guarded exactly
   like the kick; the triggers behind a Math.random() test take the draw that
   fires nothing.  The tables are written out for the first two sections of
   the arrangement, which is as far as SpecLive runs. *)

MaxLiveBars == 16   \* last bar SpecLive delivers; bar 16 opens 'Warm Build'

\* ARRANGEMENT[0] and ARRANGEMENT[1]: intensities in hundredths, pattern names
SECTIONS ==
  << [kick |-> 35, bass |-> 0, pad |-> 90, lead |-> 0,
      bassPattern |-> "none", leadPattern |-> "none"],
     [kick |-> 70, bass |-> 45, pad |-> 100, lead |-> 25,
      bassPattern |-> "minimal", leadPattern |-> "tease"] >>

\* BASS_PATTERNS.none and .minimal, vel in hundredths
BASS_PATTERNS ==
  [none    |-> <<>>,
   minimal |-> << [step |-> 0, role |-> "root", len16 |-> 6, vel |-> 100],
                  [step |-> 8, role |-> "root", len16 |-> 4, vel |-> 85],
                  [step |-> 12, role |-> "fifth", len16 |-> 4, vel |-> 80] >>]

\* a null entry of a lead pattern
NoEvent == [idx |-> -1, len16 |-> 0, vel |-> 0]

\* LEAD_PATTERNS.none and .tease, vel in hundredths
LEAD_PATTERNS ==
  [none  |-> [i \in 1..16 |-> NoEvent],
   tease |-> << NoEvent, NoEvent, NoEvent, NoEvent,
                [idx |-> 0, len16 |-> 4, vel |-> 50], NoEvent,
                [idx |-> 2, len16 |-> 3, vel |-> 46], NoEvent, NoEvent,
                [idx |-> 1, len16 |-> 2, vel |-> 45], NoEvent, NoEvent,
                [idx |-> 3, len16 |-> 3, vel |-> 48], NoEvent, NoEvent,
                NoEvent >>]

\* chord.bass of CHORD_LIBRARY
BASS ==
  [fm9    |-> [root |-> "F2", fifth |-> "C3"],
   dbMaj9 |-> [root |-> "Db2", fifth |-> "Ab2"],
   eb7sus |-> [root |-> "Eb2", fifth |-> "Bb2"],
   c7     |-> [root |-> "C2", fifth |-> "G2"],
   bbMin9 |-> [root |-> "Bb1", fifth |-> "F2"],
   abMaj9 |-> [root |-> "Ab1", fifth |-> "Eb2"]]

\* resolveBassRole for the roles of the tabulated patterns
resolveBassRole(chord, role) ==
  IF role = "fifth" THEN BASS[chord].fifth ELSE BASS[chord].root

\* the refs and nodes the callbacks and trigger functions read, as one record
liveRefs ==
  [arrangementState |-> arrangementState, chordRef |-> chordRef, used |-> <<>>,
   repeatRef |-> repeatRef, fadeScheduledRef |-> fadeScheduledRef,
   pendingStops |-> pendingStops, fadeCount |-> fadeCount,
   lastBar |-> lastBar, lookupArg |-> lookupArg, masterTarget |-> masterTarget,
   loaded |-> loaded, playingRef |-> playingRef, levelRefs |-> levelRefs,
   bpmRef |-> bpm, plays |-> <<>>]

\* a callback that reads the slider values its closure captured at mount
readLevels_mountClosure(d) == DefaultLevels

\* energyRef.current, padLevelRef.current, bassLevelRef.current, ...
readLevels(d) == d.levelRefs

\* an instrument test that is always satisfied
instrumentReady_ignoreLoad(d, role) == TRUE

\* nodes.bassInstrument, nodes.padInstrument, nodes.leadInstrument
instrumentReady(d, role) == role \in d.loaded

\* a trigger function was entered; played tells whether it got past its guard
issue(d, c, role, pitch, amp, dur, ready) ==
  [d EXCEPT !.plays = Append(@, [role |-> role, slot |-> c.slot, bar |-> c.bar,
                                 pitch |-> pitch, amp |-> amp, dur |-> dur,
                                 played |-> ready])]

triggerKick(d, c, amt) ==
  issue(d, c, "kick", "68Hz", amt, TicksPerSec \div 2, d.playingRef)

triggerBass(d, c, chord, event, bassAmt) ==
  LET sixteenth == secondsPerBeat(d.bpmRef) \div 4
  IN issue(d, c, "bass", resolveBassRole(chord, event.role), bassAmt * event.vel,
           Max(sixteenth * event.len16, (sixteenth * 9) \div 10),
           instrumentReady(d, "bass") /\ d.playingRef)

liveTriggerLead(d, c, chord, event, leadAmt) ==
  LET sixteenth == secondsPerBeat(d.bpmRef) \div 4
  IN issue(d, c, "lead", triggerLead(chord, event.idx, TRUE).note,
           leadAmt * event.vel,
           Max(sixteenth * event.len16, (sixteenth * 7) \div 10),
           instrumentReady(d, "lead") /\ d.playingRef)

schedulePadChord(d, c, chord, padAmt) ==
  issue(d, c, "pad", chord, padAmt, (secondsPerBeat(d.bpmRef) * 4 * 95) \div 100,
        instrumentReady(d, "pad") /\ d.playingRef)

\* for (const event of bassPattern) if (event.step === sixteenth) triggerBass(..)
RECURSIVE bassEvents(_, _, _, _, _)
bassEvents(d, c, pattern, i, bassAmt) ==
  IF i > Len(pattern) THEN d
  ELSE bassEvents(IF pattern[i].step = c.slot
                  THEN triggerBass(d, c, d.chordRef, pattern[i], bassAmt)
                  ELSE d,
                  c, pattern, i + 1, bassAmt)

liveHandleSixteenth(d, c) ==
  LET section == SECTIONS[d.arrangementState.index + 1]
      lv == readLevels(d)
      \* base.bass * (0.85 + energy * 0.5) * bassLevelRef.current, and
      \* base.lead * (0.7 + energy * 0.65) * leadLevelRef.current, with
      \* 0.85 + energy * 0.5 in two-hundredths and 0.7 + energy * 0.65 in
      \* two-thousandths so that the products stay within 32 bits
      bassAmt == section.bass * (170 + lv.energy) * lv.bass
      leadAmt == section.lead * (1400 + lv.energy * 13) * lv.lead
      h == handleSixteenth(d, c)
      k == IF c.slot % 4 = 0
           THEN triggerKick(h, c, section.kick * (850 + lv.energy * 3))
           ELSE h
      b == bassEvents(k, c, BASS_PATTERNS[section.bassPattern], 1, bassAmt)
      leadEvent == LEAD_PATTERNS[section.leadPattern][c.slot + 1]
  IN IF leadEvent.idx >= 0
     THEN liveTriggerLead(b, c, b.chordRef, leadEvent, leadAmt)
     ELSE b

liveHandleBar(d, c) ==
  LET h == handleBar(d, c)
      section == SECTIONS[h.arrangementState.index + 1]
  IN schedulePadChord(h, c, h.chordRef, section.pad * readLevels(h).pad)

\* the callbacks of one poll, applied in invocation order
RECURSIVE liveDirector(_, _, _)
liveDirector(d, cs, i) ==
  IF i > Len(cs) THEN d
  ELSE liveDirector(IF cs[i].cb = "onSixteenth" THEN liveHandleSixteenth(d, cs[i])
                    ELSE liveHandleBar(d, cs[i]),
                    cs, i + 1)

Roles == {"bass", "pad", "lead"}
\* the sliders that are moved, in hundredths; the lead slider stays put
LevelValues ==
  [energy |-> EnergyValues, pad |-> {85, 100}, bass |-> {90, 50}, lead |-> {80}]

(* State after the mount effect of <Techno/>, no instrument loaded yet *)
LiveInit ==
  /\ TechnoInit
  /\ bpm = 120

\* play(): the scheduler is started only if playingRef.current is still false
LivePlay ==
  /\ timerId = 0
  /\ arrangementState' = [index |-> 0, offset |-> 0]
  /\ chordRef' = CHORD_SEQUENCE[1]
  /\ fadeScheduledRef' = FALSE
  /\ masterTarget' = MasterPlay
  /\ IF ~playingRef
     THEN /\ start(TechnoStartDelay)
          /\ lastOp' = "start"
     ELSE /\ UNCHANGED <<schedVars, nextTimerId, sincePoll, polled, count16,
                         gridBase, bpmSteady>>
          /\ lastOp' = "other"
  /\ calls' = <<>>
  /\ used' = <<>>
  /\ plays' = <<>>
  /\ fadeCount' = 0
  /\ lastBar' = -1
  /\ lookupArg' = -1
  /\ UNCHANGED <<now, bpm, swing, app, repeatRef, pendingStops, pureVars,
                 loaded, playingRef, levelRefs, appVars, extrasVars>>

\* stop()
LiveStop ==
  /\ timerId # 0
  /\ stop
  /\ masterTarget' = MasterPlay
  /\ calls' = <<>>
  /\ used' = <<>>
  /\ plays' = <<>>
  /\ lastOp' = "stop"
  /\ UNCHANGED <<now, bpm, swing, nextNoteTime, current16th, barCount,
                 nextTimerId, sincePoll, polled, count16, gridBase, bpmSteady,
                 arrangementState, chordRef, runVars, pureVars,
                 loaded, playingRef, levelRefs, appVars, extrasVars>>

\* useEffect(() => { playingRef.current = playing; }, [playing]), run by React
\* some time after the render that follows setPlaying
PlayingEffect ==
  /\ playingRef # (timerId # 0)
  /\ playingRef' = (timerId # 0)
  /\ calls' = <<>>
  /\ used' = <<>>
  /\ plays' = <<>>
  /\ lastOp' = "other"
  /\ UNCHANGED <<now, bpm, swing, schedVars, nextTimerId, sincePoll, polled,
                 count16, gridBase, bpmSteady, arrangementState, chordRef,
                 runVars, pureVars, loaded, levelRefs, masterTarget, appVars, extrasVars>>

\* one firing of the interval that finds one slot due
LivePoll(id) ==
  /\ id \in timers
  /\ barCount <= MaxLiveBars
  /\ LET e == emitSlot([nextNoteTime |-> nextNoteTime, current16th |-> current16th,
                        barCount |-> barCount, calls |-> <<>>],
                       swing, bpm, NoThrow)
         a == advance(e, bpm)
         d == liveDirector(liveRefs, e.calls, 1)
     IN /\ current16th' = a.current16th
        /\ barCount' = a.barCount
        /\ calls' = e.calls
        /\ count16' = count16 + 1
        /\ arrangementState' = d.arrangementState
        /\ chordRef' = d.chordRef
        /\ used' = d.used
        /\ plays' = d.plays
        /\ fadeScheduledRef' = d.fadeScheduledRef
        /\ pendingStops' = d.pendingStops
        /\ fadeCount' = d.fadeCount
        /\ lastBar' = d.lastBar
        /\ lookupArg' = d.lookupArg
        /\ masterTarget' = d.masterTarget
  /\ polled' = TRUE
  /\ lastOp' = "poll"
  /\ UNCHANGED <<now, bpm, swing, nextNoteTime, timerId, timers, nextTimerId,
                 sincePoll, gridBase, bpmSteady, app, repeatRef, pureVars,
                 loaded, playingRef, levelRefs, appVars, extrasVars>>

\* Soundfont.instrument(...).then(inst => { nodes.<role>Instrument = inst; ... })
Load(role) ==
  /\ role \notin loaded
  /\ loaded' = loaded \cup {role}
  /\ calls' = <<>>
  /\ used' = <<>>
  /\ plays' = <<>>
  /\ lastOp' = "other"
  /\ UNCHANGED <<now, bpm, swing, schedVars, nextTimerId, sincePoll, polled,
                 count16, gridBase, bpmSteady, arrangementState, chordRef,
                 runVars, pureVars, playingRef, levelRefs, masterTarget, appVars, extrasVars>>

\* a slider and its effect: <name>Ref.current = value; the energy effect also
\* calls updateEnergyCurve()
SetLevel(name, v) ==
  /\ v # levelRefs[name]
  /\ levelRefs' = [levelRefs EXCEPT ![name] = v]
  /\ masterTarget' = IF name = "energy" THEN energyTarget(v) ELSE masterTarget
  /\ calls' = <<>>
  /\ used' = <<>>
  /\ plays' = <<>>
  /\ lastOp' = "other"
  /\ UNCHANGED <<now, bpm, swing, schedVars, nextTimerId, sincePoll, polled,
                 count16, gridBase, bpmSteady, arrangementState, chordRef,
                 runVars, pureVars, loaded, playingRef, appVars, extrasVars>>

LiveNext ==
  \/ LivePlay
  \/ LiveStop
  \/ PlayingEffect
  \/ \E id \in timers : LivePoll(id)
  \/ \E role \in Roles : Load(role)
  \/ \E name \in DOMAIN LevelValues : \E v \in LevelValues[name] : SetLevel(name, v)

SpecLive == LiveInit /\ [][LiveNext]_vars

----------------------------------------------------------------------------
(* App: the generative player behind the Play/Pause button.  toggle() awaits
   ctx.resume() before it creates and starts a scheduler, so a second click
   can enter toggle() while the first is suspended; both invocations read the
   `playing` their render captured.  A scheduler that schedulerRef no longer
   points to keeps its interval: it is followed as an orphan. *)

MaxAppBars == 32      \* last bar the scheduler in schedulerRef delivers
MaxOrphanSlots == 2   \* slot of bar 0 up to which a scheduler is orphaned, and
                      \* up to which an orphaned scheduler is followed

NumPools == 3                            \* MINOR_POOLS.length
CHANGE_EVERY_BARS == 16
AppBpm == 96
AppSwing == 4                            \* SWING = 0.2
AppStartDelay == TicksPerSec \div 20     \* start(0.05)

\* a pick that keeps whatever Math.random() drew
pickPool_noReroll(draw, current) == draw

\* idx = floor(random * length); if (length > 1 && idx === current) idx = (idx + 1) % length
pickPool(draw, current) ==
  IF NumPools > 1 /\ draw = current THEN (draw + 1) % NumPools ELSE draw

\* onBar: the refs it writes, draw being floor(Math.random() * MINOR_POOLS.length)
onBar(d, draw) ==
  LET since == d.barsSinceChangeRef + 1
  IN [barsSinceChangeRef |-> since,
      progIdxRef |-> IF since % CHANGE_EVERY_BARS = 0
                     THEN pickPool(draw, d.progIdxRef)
                     ELSE d.progIdxRef]

\* the callbacks of one poll; onSixteenth only triggers drum voices
RECURSIVE appDirector(_, _, _, _)
appDirector(d, cs, i, draw) ==
  IF i > Len(cs) THEN d
  ELSE appDirector(IF cs[i].cb = "onBar" THEN onBar(d, draw) ELSE d, cs, i + 1, draw)

appRefs == [barsSinceChangeRef |-> barsSinceChangeRef, progIdxRef |-> progIdxRef]

\* number of onBar invocations among the callbacks cs
NumBars(cs) == Cardinality({i \in 1..Len(cs) : cs[i].cb = "onBar"})

(* State after the mount effect of <App/>: no scheduler created yet *)
AppInit ==
  /\ now = 0
  /\ bpm = AppBpm
  /\ swing = AppSwing
  /\ nextNoteTime = 0
  /\ current16th = 0
  /\ barCount = 0
  /\ timerId = 0
  /\ timers = {}
  /\ nextTimerId = 1
  /\ sincePoll = 0
  /\ polled = FALSE
  /\ calls = <<>>
  /\ count16 = 0
  /\ gridBase = 0
  /\ bpmSteady = TRUE
  /\ lastOp = "create"
  /\ arrangementState = [index |-> 0, offset |-> 0]
  /\ chordRef = "fm9"
  /\ used = <<>>
  /\ RunIdle("app")
  /\ PureIdle
  /\ LiveIdle
  /\ AppIdle
  /\ ExtrasIdle

\* toggle() entered with playing false: it suspends at await ctx.resume()
AppTogglePlay ==
  /\ timerId = 0
  /\ nextTimerId + pendingToggles <= MaxStarts
  /\ pendingToggles' = pendingToggles + 1
  /\ calls' = <<>>
  /\ lastOp' = "other"
  /\ UNCHANGED <<now, bpm, swing, schedVars, nextTimerId, sincePoll, polled,
                 count16, gridBase, bpmSteady, technoVars, runVars, pureVars,
                 liveVars, progIdxRef, barsSinceChangeRef, orphans, barCallbacks, extrasVars>>

\* a suspended toggle() resumes: it resets the counters, stores a new
\* scheduler in schedulerRef, starts it and calls setPlaying(true).  The
\* scheduler schedulerRef pointed to is not stopped.  Overlapping invocations
\* are followed when the later one resumes within the first slots of the
\* scheduler the earlier one started.
AppResumed ==
  /\ pendingToggles > 0
  /\ timerId # 0 => (barCount = 0 /\ current16th <= MaxOrphanSlots)
  /\ pendingToggles' = pendingToggles - 1
  /\ barsSinceChangeRef' = 0
  /\ barCallbacks' = 0
  /\ orphans' = IF timerId # 0
                THEN orphans \cup {[id |-> timerId, current16th |-> current16th,
                                    barCount |-> barCount]}
                ELSE orphans
  /\ nextNoteTime' = now + AppStartDelay
  /\ current16th' = 0
  /\ barCount' = 0
  /\ timerId' = nextTimerId
  /\ timers' = timers \cup {nextTimerId}
  /\ nextTimerId' = nextTimerId + 1
  /\ sincePoll' = 0
  /\ polled' = FALSE
  /\ count16' = 0
  /\ gridBase' = now + AppStartDelay
  /\ bpmSteady' = TRUE
  /\ calls' = <<>>
  /\ lastOp' = "start"
  /\ UNCHANGED <<now, bpm, swing, technoVars, runVars, pureVars, liveVars,
                 progIdxRef, extrasVars>>

\* toggle() entered with playing true: schedulerRef.current.stop()
AppTogglePause ==
  /\ timerId # 0
  /\ stop
  /\ calls' = <<>>
  /\ lastOp' = "stop"
  /\ UNCHANGED <<now, bpm, swing, nextNoteTime, current16th, barCount,
                 nextTimerId, sincePoll, polled, count16, gridBase, bpmSteady,
                 technoVars, runVars, pureVars, liveVars, appVars, extrasVars>>

\* one firing of the interval of the scheduler in schedulerRef
AppPoll(draw) ==
  /\ timerId \in timers
  /\ barCount <= MaxAppBars
  /\ LET e == emitSlot([nextNoteTime |-> nextNoteTime, current16th |-> current16th,
                        barCount |-> barCount, calls |-> <<>>],
                       swing, bpm, NoThrow)
         a == advance(e, bpm)
         d == appDirector(appRefs, e.calls, 1, draw)
     IN /\ current16th' = a.current16th
        /\ barCount' = a.barCount
        /\ calls' = e.calls
        /\ count16' = count16 + 1
        /\ barsSinceChangeRef' = d.barsSinceChangeRef
        /\ progIdxRef' = d.progIdxRef
        /\ barCallbacks' = barCallbacks + NumBars(e.calls)
  /\ polled' = TRUE
  /\ lastOp' = "poll"
  /\ UNCHANGED <<now, bpm, swing, nextNoteTime, timerId, timers, nextTimerId,
                 sincePoll, gridBase, bpmSteady, technoVars, runVars, pureVars,
                 liveVars, pendingToggles, orphans, extrasVars>>

\* one firing of the interval of an orphaned scheduler: same callbacks
OrphanPoll(o, draw) ==
  /\ o \in orphans
  /\ o.id \in timers
  /\ o.barCount = 0
  /\ o.current16th <= MaxOrphanSlots
  /\ LET e == emitSlot([nextNoteTime |-> nextNoteTime, current16th |-> o.current16th,
                        barCount |-> o.barCount, calls |-> <<>>],
                       swing, bpm, NoThrow)
         a == advance(e, bpm)
         d == appDirector(appRefs, e.calls, 1, draw)
     IN /\ orphans' = (orphans \ {o})
                        \cup {[id |-> o.id, current16th |-> a.current16th,
                               barCount |-> a.barCount]}
        /\ calls' = e.calls
        /\ barsSinceChangeRef' = d.barsSinceChangeRef
        /\ progIdxRef' = d.progIdxRef
        /\ barCallbacks' = barCallbacks + NumBars(e.calls)
  /\ lastOp' = "poll"
  /\ UNCHANGED <<now, bpm, swing, schedVars, nextTimerId, sincePoll, polled,
                 count16, gridBase, bpmSteady, technoVars, runVars, pureVars,
                 liveVars, pendingToggles, extrasVars>>

AppNext ==
  \/ AppTogglePlay
  \/ AppResumed
  \/ AppTogglePause
  \/ \E draw \in 0..(NumPools - 1) : AppPoll(draw)
  \/ \E o \in orphans : \E draw \in 0..(NumPools - 1) : OrphanPoll(o, draw)

SpecApp == AppInit /\ [][AppNext]_vars

----------------------------------------------------------------------------
(* App with the Bass and Sprinkles check boxes.  onBar and toggle are
   re-created by every render and read the bassOn of that render; toggle()
   hands the onBar of its own render to createScheduler and nothing replaces
   the scheduler's callbacks afterwards.  The component is followed for one
   toggle() at a time; constants and toggle() are those of App above.  The
   sprinkle branch of onBar depends on a random motif and is left out. *)

\* onBar of this variant: the refs it writes and the triggers it issues,
\* closureBassOn being the bassOn its closure holds
extrasOnBar(d, c, draw, closureBassOn) ==
  LET r == onBar(d, draw)
      pad == <<[role |-> "pad", bar |-> c.bar]>>
  IN [barsSinceChangeRef |-> r.barsSinceChangeRef,
      progIdxRef |-> r.progIdxRef,
      plays |-> d.plays \o pad
                  \o (IF closureBassOn THEN <<[role |-> "bass", bar |-> c.bar]>>
                      ELSE <<>>)]

RECURSIVE extrasDirector(_, _, _, _, _)
extrasDirector(d, cs, i, draw, closureBassOn) ==
  IF i > Len(cs) THEN d
  ELSE extrasDirector(IF cs[i].cb = "onBar"
                      THEN extrasOnBar(d, cs[i], draw, closureBassOn)
                      ELSE d,
                      cs, i + 1, draw, closureBassOn)

extrasRefs ==
  [barsSinceChangeRef |-> barsSinceChangeRef, progIdxRef |-> progIdxRef,
   plays |-> <<>>]

(* State after the mount effect, nothing stored in localStorage *)
ExtrasInit == AppInit

\* toggle() entered with playing false; the invocation belongs to the render
\* that is on screen and holds that render's onBar
ExtrasTogglePlay ==
  /\ timerId = 0
  /\ pendingToggles = 0
  /\ nextTimerId <= MaxStarts
  /\ pendingToggles' = 1
  /\ onBarBassOn' = bassOn
  /\ calls' = <<>>
  /\ plays' = <<>>
  /\ lastOp' = "other"
  /\ UNCHANGED <<now, bpm, swing, schedVars, nextTimerId, sincePoll, polled,
                 count16, gridBase, bpmSteady, technoVars, runVars, pureVars,
                 loaded, playingRef, levelRefs, masterTarget,
                 progIdxRef, barsSinceChangeRef, orphans, barCallbacks, bassOn>>

\* the Bass check box: setBassOn(e.target.checked) and the render that follows
SetBassOn(v) ==
  /\ v # bassOn
  /\ bassOn' = v
  /\ calls' = <<>>
  /\ plays' = <<>>
  /\ lastOp' = "other"
  /\ UNCHANGED <<now, bpm, swing, schedVars, nextTimerId, sincePoll, polled,
                 count16, gridBase, bpmSteady, technoVars, runVars, pureVars,
                 loaded, playingRef, levelRefs, masterTarget, appVars,
                 onBarBassOn>>

\* one firing of the interval that finds one slot due
ExtrasPoll(draw) ==
  /\ timerId \in timers
  /\ barCount <= MaxAppBars
  /\ LET e == emitSlot([nextNoteTime |-> nextNoteTime, current16th |-> current16th,
                        barCount |-> barCount, calls |-> <<>>],
                       swing, bpm, NoThrow)
         a == advance(e, bpm)
         d == extrasDirector(extrasRefs, e.calls, 1, draw, onBarBassOn)
     IN /\ current16th' = a.current16th
        /\ barCount' = a.barCount
        /\ calls' = e.calls
        /\ count16' = count16 + 1
        /\ barsSinceChangeRef' = d.barsSinceChangeRef
        /\ progIdxRef' = d.progIdxRef
        /\ plays' = d.plays
        /\ barCallbacks' = barCallbacks + NumBars(e.calls)
  /\ polled' = TRUE
  /\ lastOp' = "poll"
  /\ UNCHANGED <<now, bpm, swing, nextNoteTime, timerId, timers, nextTimerId,
                 sincePoll, gridBase, bpmSteady, technoVars, runVars, pureVars,
                 loaded, playingRef, levelRefs, masterTarget,
                 pendingToggles, orphans, extrasVars>>

ExtrasNext ==
  \/ ExtrasTogglePlay
  \/ AppResumed
  \/ AppTogglePause
  \/ \E v \in BOOLEAN : SetBassOn(v)
  \/ \E draw \in 0..(NumPools - 1) : ExtrasPoll(draw)

SpecExtras == ExtrasInit /\ [][ExtrasNext]_vars

----------------------------------------------------------------------------
(* The scheduler with whatever its options and setters accept.  bpm and swing
   of createScheduler's options are stored as given and setBpm stores its
   argument as given; only setSwing clamps.  The loop of schedule() is
   followed one iteration at a time: lastOp is "enter" after the interval
   fired and `now` was read, "iter" after an iteration, "poll" once the loop
   condition failed.  JavaScript runs the loop to completion, so nothing else
   happens between "enter" and "poll". *)

MaxOptsTime == 2400   \* clock readings followed, in ticks (0.3 s)
MaxIter == 8          \* iterations of one poll that are followed

OptBpmValues == {0 - 120, 0, 120, Infinity}
OptSwingValues == {0 - 5, 0, 4, 30}      \* -0.25, 0, 0.2, 1.5
InLoop == lastOp \in {"enter", "iter"}

(* State after createScheduler(ctx, { bpm, swing }) *)
OptsInit ==
  /\ now = 0
  /\ bpm \in OptBpmValues
  /\ swing \in OptSwingValues
  /\ nextNoteTime = 0
  /\ current16th = 0
  /\ barCount = 0
  /\ timerId = 0
  /\ timers = {}
  /\ nextTimerId = 1
  /\ sincePoll = 0
  /\ polled = FALSE
  /\ calls = <<>>
  /\ count16 = 0
  /\ gridBase = 0
  /\ bpmSteady = TRUE
  /\ lastOp = "create"
  /\ arrangementState = [index |-> 0, offset |-> 0]
  /\ chordRef = "fm9"
  /\ used = <<>>
  /\ RunIdle("none")
  /\ PureIdle
  /\ LiveIdle
  /\ AppIdle
  /\ ExtrasIdle

OptsTick ==
  /\ ~InLoop
  /\ ClockAdvance(lookaheadTicks, MaxOptsTime)
  /\ UNCHANGED <<technoVars, runVars, pureVars, liveVars, appVars, extrasVars>>

OptsStart ==
  /\ ~InLoop
  /\ timerId = 0
  /\ Start(TicksPerSec \div 20)

OptsSetBpm(newBpm) ==
  /\ ~InLoop
  /\ newBpm # bpm
  /\ SetBpm(newBpm)

OptsSetSwing(x) ==
  /\ ~InLoop
  /\ SetSwing(x)

\* the interval fires: schedule() is entered and reads ctx.currentTime
OptsEnter(id) ==
  /\ ~InLoop
  /\ id \in timers
  /\ sincePoll >= lookaheadTicks
  /\ sincePoll' = 0
  /\ calls' = <<>>
  /\ lastOp' = "enter"
  /\ UNCHANGED <<now, bpm, swing, schedVars, nextTimerId, polled, count16,
                 gridBase, bpmSteady, technoVars, runVars, pureVars, liveVars,
                 appVars, extrasVars>>

\* one iteration of while (nextNoteTime < now + scheduleAheadSec) { ... }
OptsIter ==
  /\ InLoop
  /\ nextNoteTime < now + scheduleAheadSec
  /\ Len(Sixteenths(calls)) < MaxIter
  /\ LET e == emitSlot([nextNoteTime |-> nextNoteTime, current16th |-> current16th,
                        barCount |-> barCount, calls |-> calls],
                       swing, bpm, NoThrow)
         a == advance(e, bpm)
     IN /\ nextNoteTime' = a.nextNoteTime
        /\ current16th' = a.current16th
        /\ barCount' = a.barCount
        /\ calls' = e.calls
  /\ count16' = count16 + 1
  /\ lastOp' = "iter"
  /\ UNCHANGED <<now, bpm, swing, timerId, timers, nextTimerId, sincePoll,
                 polled, gridBase, bpmSteady, technoVars, runVars, pureVars,
                 liveVars, appVars, extrasVars>>

\* the loop condition fails: schedule() returns
OptsExit ==
  /\ InLoop
  /\ ~(nextNoteTime < now + scheduleAheadSec)
  /\ polled' = TRUE
  /\ lastOp' = "poll"
  /\ UNCHANGED <<now, bpm, swing, schedVars, nextTimerId, sincePoll, calls,
                 count16, gridBase, bpmSteady, technoVars, runVars, pureVars,
                 liveVars, appVars, extrasVars>>

OptsNext ==
  \/ OptsTick
  \/ OptsStart
  \/ \E b \in OptBpmValues : OptsSetBpm(b)
  \/ \E x \in SwingInputs : OptsSetSwing(x)
  \/ \E id \in timers : OptsEnter(id)
  \/ OptsIter
  \/ OptsExit

SpecOpts == OptsInit /\ [][OptsNext]_vars

----------------------------------------------------------------------------
(* Properties of the scheduler *)

S16 == Sixteenths(calls)

\* number of onSixteenth invocations of the last poll at positions i..Len(calls)
NumSixFrom(i) == Cardinality({j \in i..Len(calls) : calls[j].cb = "onSixteenth"})

\* grid time (the value of nextNoteTime) at which the invocation calls[i] was made
GridAt(i) ==
  nextNoteTime - sixteenthDur(bpm) *
    (IF calls[i].cb = "onSixteenth" THEN NumSixFrom(i) ELSE NumSixFrom(i) + 1)

\* C1: between start() and stop() the (bar, slot) pairs handed to onSixteenth
\* are (0,0),(0,1),...,(0,15),(1,0),...: the k-th invocation since start()
\* carries bar = k div 16 and slot = k mod 16, whatever the poll times, and
\* barCount/current16th count the invocations made.
C1_GaplessSlots ==
  /\ current16th \in 0..15
  /\ count16 = 16 * barCount + current16th
  /\ \A i \in 1..Len(S16) :
       /\ S16[i].slot \in 0..15
       /\ 16 * S16[i].bar + S16[i].slot = count16 - Len(S16) + (i - 1)

C1_Witness ==
  /\ timerId # 0
  /\ Len(S16) >= 3
  /\ \E i \in 1..(Len(S16) - 1) :
       /\ S16[i].slot = 15 /\ S16[i].bar = 0
       /\ S16[i + 1].slot = 0 /\ S16[i + 1].bar = 1

\* C2 (as stated): while running, nextNoteTime - now never exceeds
\* scheduleAheadSec and never becomes negative.
C2_Original ==
  timerId # 0 =>
    /\ nextNoteTime - now <= scheduleAheadSec
    /\ nextNoteTime - now >= 0

\* C2 (amended): while running, once a poll has run nextNoteTime - now is at
\* least scheduleAheadSec minus the clock time elapsed since the last poll
\* (so at least scheduleAheadSec right after a poll), and right after a poll
\* that emitted a slot it is less than scheduleAheadSec plus one sixteenth.
C2_Amended ==
  timerId # 0 =>
    /\ polled => nextNoteTime - now >= scheduleAheadSec - sincePoll
    /\ (lastOp = "poll" /\ calls # <<>>) =>
         nextNoteTime - now < scheduleAheadSec + sixteenthDur(bpm)

C2_Witness ==
  /\ timerId # 0
  /\ lastOp = "poll"
  /\ calls # <<>>
  /\ nextNoteTime - now > scheduleAheadSec

\* C3: start() while running changes nothing; start() while not running sets
\* nextNoteTime = now + delay, current16th = 0, barCount = 0 and arms the
\* polling timer; never more than one timer is armed.
C3_StartContract ==
  /\ [][lastOp' = "start" =>
          IF timerId # 0
          THEN UNCHANGED <<nextNoteTime, current16th, barCount, timerId, timers>>
          ELSE /\ nextNoteTime' - now \in StartDelays
               /\ current16th' = 0
               /\ barCount' = 0
               /\ timerId' # 0
               /\ timers' = {timerId'}]_vars
  /\ [](Cardinality(timers) <= 1)

C3_Witness ==
  /\ lastOp = "start"
  /\ timerId = 2
  /\ polled
  /\ current16th # 0

\* C4: with no run started (after stop() and before the next start()) no poll
\* runs and no callback is invoked; stop() while not running changes nothing.
C4_StopHalts ==
  [][/\ timerId = 0 => /\ lastOp' # "poll"
                       /\ calls' = <<>>
                       /\ lastOp' # "start" => count16' = count16
     /\ (lastOp' = "stop" /\ timerId = 0) =>
          UNCHANGED <<nextNoteTime, current16th, barCount, timerId, timers>>]_vars

C4_Witness ==
  /\ timerId = 0
  /\ count16 > 0
  /\ sincePoll >= lookaheadTicks

\* C5: the time handed to onSixteenth exceeds the grid time by
\* swing * sixteenthDur when slot mod 4 = 2 and by nothing otherwise; the time
\* handed to onBar is the grid time of slot 0.
C5_SwingOffset ==
  \A i \in 1..Len(calls) :
    IF calls[i].cb = "onSixteenth"
    THEN calls[i].time - GridAt(i) =
           IF calls[i].slot % 4 = 2 THEN (swing * sixteenthDur(bpm)) \div SwingDen ELSE 0
    ELSE calls[i].slot = 0 /\ calls[i].time = GridAt(i)

C5_Witness ==
  /\ swing > 0
  /\ \E i \in 1..Len(calls) : calls[i].cb = "onBar"
  /\ \E i \in 1..Len(calls) :
       calls[i].cb = "onSixteenth" /\ calls[i].slot = 2 /\ calls[i].time > GridAt(i)

\* C6: with bpm unchanged since start(delay) at clock time T, the grid time of
\* slot s of bar b is T + delay + (16 b + s) d, d = 0.25 * 60 / bpm, whatever
\* the poll times; the first onSixteenth and the first onBar carry T + delay.
C6_NoDrift ==
  bpmSteady =>
    /\ nextNoteTime = gridBase + (16 * barCount + current16th) * sixteenthDur(bpm)
    /\ \A i \in 1..Len(calls) :
         calls[i].time =
           gridBase + (16 * calls[i].bar + calls[i].slot) * sixteenthDur(bpm)
             + (IF calls[i].cb = "onSixteenth" /\ calls[i].slot % 4 = 2
                THEN (swing * sixteenthDur(bpm)) \div SwingDen ELSE 0)
    /\ (calls # <<>> /\ count16 = Len(S16)) =>
         /\ calls[1].cb = "onSixteenth" /\ calls[1].time = gridBase
         /\ calls[1].slot = 0 /\ calls[1].bar = 0
         /\ calls[2].cb = "onBar" /\ calls[2].time = gridBase /\ calls[2].bar = 0

C6_Witness ==
  /\ bpmSteady
  /\ calls # <<>>
  /\ calls[1].time < now
  /\ count16 > Len(S16)
  /\ barCount >= 1

\* C7: setBpm leaves nextNoteTime, current16th and barCount alone, and every
\* advance of a later poll adds 0.25 * 60 / bpm for the bpm then in force.
C7_SetBpmNotRetroactive ==
  [][/\ bpm' # bpm => UNCHANGED <<nextNoteTime, current16th, barCount>>
     /\ lastOp' = "poll" =>
          nextNoteTime' = nextNoteTime + Len(Sixteenths(calls')) * sixteenthDur(bpm)]_vars

C7_Witness ==
  /\ ~bpmSteady
  /\ lastOp = "poll"
  /\ Len(S16) >= 2
  /\ count16 > Len(S16)

\* C8: a throwing callback stops nothing: onBar is still invoked after a
\* throwing onSixteenth of slot 0, advance() still runs for the slot, the
\* poll still emits up to the horizon, and the timer stays armed.
C8_ThrowsSwallowed ==
  /\ []((lastOp = "poll" /\ \E i \in 1..Len(calls) : calls[i].threw) =>
          /\ nextNoteTime >= now + scheduleAheadSec
          /\ nextNoteTime - sixteenthDur(bpm) < now + scheduleAheadSec
          /\ count16 = 16 * barCount + current16th
          /\ \A i \in 1..Len(calls) :
               (calls[i].cb = "onSixteenth" /\ calls[i].slot = 0) =>
                 /\ i < Len(calls)
                 /\ calls[i + 1].cb = "onBar"
                 /\ calls[i + 1].bar = calls[i].bar)
  /\ [][lastOp' = "poll" => UNCHANGED <<timerId, timers>>]_vars

C8_Witness ==
  /\ lastOp = "poll"
  /\ Len(calls) >= 4
  /\ calls[1].cb = "onSixteenth" /\ calls[1].slot = 0 /\ calls[1].threw
  /\ calls[2].cb = "onBar"
  /\ timerId # 0

----------------------------------------------------------------------------
(* Properties of the Techno director *)

\* C10: every sixteenth event (slot s, bar b) handled by handleSixteenth,
\* slot 0 included, reads the chord CHORD_SEQUENCE[b mod length] and the
\* section and offset getSectionForBar(b) returns.
C10_SlotUsesItsBar ==
  \A i \in 1..Len(used) :
    /\ used[i].chord = CHORD_SEQUENCE[(used[i].bar % Len(CHORD_SEQUENCE)) + 1]
    /\ used[i].index = getSectionForBar(used[i].bar).index
    /\ used[i].offset = getSectionForBar(used[i].bar).offset

----------------------------------------------------------------------------
(* Properties of the resolvers and of the directors *)

\* the result r of a resolver for bar, against section lengths whose prefix
\* sums are given by starts: r.index is the only section whose half-open
\* interval holds bar, r.offset is the distance from its start
InItsSection(r, bar, n, starts(_)) ==
  /\ r.index \in 0..(n - 1)
  /\ \A j \in 0..(n - 1) :
        (starts(j) <= bar /\ bar < starts(j + 1)) <=> (j = r.index)
  /\ r.offset = bar - starts(r.index)
  /\ r.isSectionStart = (r.offset = 0)

\* C11: for every bar in [0, TOTAL_BARS), getSectionForBar (Techno and Piano)
\* returns the one section whose interval [start_i, start_i + bars_i) holds the
\* bar, offset = bar - start_i, isSectionStart exactly when offset = 0; the
\* intervals leave no gap and do not overlap.
C11_Partition ==
  /\ (fn = "getSectionForBar" /\ done /\ arg.bar < TOTAL_BARS)
        => InItsSection(out, arg.bar, Len(ARRANGEMENT), SumBars)
  /\ (fn = "pianoGetSectionForBar" /\ done /\ arg.bar < PIANO_TOTAL_BARS)
        => InItsSection(out, arg.bar, Len(PIANO_ARRANGEMENT), PianoSumBars)

C11_Witness ==
  /\ fn = "getSectionForBar"
  /\ done
  /\ arg.bar = 16
  /\ out = [index |-> 1, offset |-> 0, isSectionStart |-> TRUE]

\* C12: for every bar >= TOTAL_BARS, Techno's getSectionForBar returns the last
\* section with offset = its length - 1 and isSectionStart false: the section
\* and offset of bar TOTAL_BARS - 1.
C12_ClampToLast ==
  (fn = "getSectionForBar" /\ done /\ arg.bar >= TOTAL_BARS)
     => /\ out.index = Len(ARRANGEMENT) - 1
        /\ out.offset = ARRANGEMENT[Len(ARRANGEMENT)] - 1
        /\ out.isSectionStart = FALSE
        /\ out.index = getSectionForBar(TOTAL_BARS - 1).index
        /\ out.offset = getSectionForBar(TOTAL_BARS - 1).offset

C12_Witness ==
  /\ fn = "getSectionForBar"
  /\ done
  /\ arg.bar = TOTAL_BARS + 1
  /\ out = [index |-> 6, offset |-> 15, isSectionStart |-> FALSE]

\* this step is a poll that emitted slot 0, so it called the bar callback with
\* barCount = lastBar'
BarCallback == lastOp' = "poll" /\ current16th = 0 /\ current16th' = 1

\* C13: in Piano repeat mode handleBar resolves every bar count b, also b >=
\* TOTAL_BARS, with getSectionForBar(b mod TOTAL_BARS): the section, offset and
\* isSectionStart of bar b are those of bar b + k*TOTAL_BARS, and the resolver
\* never takes its clamp branch.
C13_RepeatWraps ==
  [][(BarCallback /\ app = "piano" /\ repeatRef)
       => /\ lookupArg' = lastBar' % PIANO_TOTAL_BARS
          /\ lookupArg' < PIANO_TOTAL_BARS
          /\ arrangementState' = pianoGetSectionForBar(lastBar' % PIANO_TOTAL_BARS)
          /\ \A k \in 1..2 :
                arrangementState' = pianoGetSectionForBar(
                    effectiveBar(TRUE, lastBar' + k * PIANO_TOTAL_BARS))]_vars

C13_Witness ==
  /\ app = "piano"
  /\ repeatRef
  /\ lastOp = "poll"
  /\ lastBar = PIANO_TOTAL_BARS + 1
  /\ lookupArg = 1
  /\ arrangementState = [index |-> 0, offset |-> 1, isSectionStart |-> FALSE]

\* C14: in terminal mode the fade (gain ramp and deferred stop timer) is
\* scheduled exactly once per run, on the first bar callback with barCount >=
\* TOTAL_BARS, and never again on a later bar callback of the run, whatever the
\* user did meanwhile: after every such callback the run has scheduled one fade.
C14_FadeOncePerRun ==
  [][(BarCallback /\ ~repeatRef /\ lastBar' >= Total(app)) => fadeCount' = 1]_vars

\* a bar callback with barCount >= TOTAL_BARS has just run in terminal mode
TerminalBar ==
  /\ lastOp = "poll"
  /\ current16th = 1
  /\ ~repeatRef
  /\ lastBar >= Total(app)

\* C15: in terminal mode, once a bar callback with barCount >= TOTAL_BARS has
\* occurred, the scheduler is eventually stopped by the deferred stop without
\* user action (timers fire), and no slot callback occurs after a stop.
C15_FadeThenStopped ==
  /\ TerminalBar ~> (timers = {})
  /\ [][(timers = {}) => (lastOp' # "poll")]_vars

C15_Witness ==
  /\ lastOp = "timeout"
  /\ timers = {}
  /\ fadeScheduledRef
  /\ lastBar >= Total(app)
  /\ nextTimerId = 2

\* C16: while Piano's repeat mode is on, whatever happened earlier in the run,
\* no bar callback schedules a fade and no deferred stop stops the scheduler:
\* it runs until the user calls stop().
C16_RepeatBypassesFade ==
  [][(app = "piano" /\ repeatRef)
       => /\ fadeCount' <= fadeCount
          /\ pendingStops' <= pendingStops
          /\ ~(lastOp' = "timeout" /\ timers # {} /\ timers' = {})]_vars

\* C17 as stated: for every bar count b delivered to the bar callback the
\* chord selected is CHORD_SEQUENCE[b mod length(CHORD_SEQUENCE)], in Techno and
\* in Piano's terminal and repeat modes.
C17_Original ==
  [][BarCallback
       => chordRef' = ChordSeq(app)[(lastBar' % Len(ChordSeq(app))) + 1]]_vars

\* C17 amended: Techno selects CHORD_SEQUENCE[b mod length]; Piano selects
\* CHORD_SEQUENCE[e mod length] with e = b mod TOTAL_BARS in repeat mode and
\* e = b in terminal mode, and in terminal mode with b >= TOTAL_BARS it selects
\* no chord: the chord of the previous callback stays.
C17_Amended ==
  [][BarCallback
       => IF app = "techno"
          THEN chordRef' = CHORD_SEQUENCE[(lastBar' % Len(CHORD_SEQUENCE)) + 1]
          ELSE IF repeatRef
          THEN chordRef' = PIANO_CHORD_SEQUENCE[
                 ((lastBar' % PIANO_TOTAL_BARS) % Len(PIANO_CHORD_SEQUENCE)) + 1]
          ELSE IF lastBar' < PIANO_TOTAL_BARS
          THEN chordRef' = PIANO_CHORD_SEQUENCE[(lastBar' % Len(PIANO_CHORD_SEQUENCE)) + 1]
          ELSE chordRef' = chordRef]_vars

C17_Witness ==
  /\ app = "piano"
  /\ repeatRef
  /\ lastOp = "poll"
  /\ current16th = 1
  /\ lastBar = PIANO_TOTAL_BARS
  /\ chordRef = "dm9"

\* C18 as stated: with the 8-chord CHORD_SEQUENCE and the 168-bar ARRANGEMENT
\* the chord at bar 8 is the chord at bar 0 and getSectionForBar returns for
\* bar 8 a section other than the one of bar 0.
C18_Original ==
  (fn = "getSectionForBar" /\ done /\ arg.bar = 8)
     => /\ CHORD_SEQUENCE[(8 % Len(CHORD_SEQUENCE)) + 1] = CHORD_SEQUENCE[1]
        /\ out.index # getSectionForBar(0).index

\* C18 amended: the chord at bar 8 is the chord at bar 0 and bar 8 lies in the
\* section of bar 0 (section 0, 16 bars long) at offset 8, as does every bar
\* below 16; bar 16 is the first bar with the chord of bar 0 and another
\* section.
C18_Amended ==
  (fn = "getSectionForBar" /\ done)
     => /\ (arg.bar = 8)
             => /\ CHORD_SEQUENCE[(8 % Len(CHORD_SEQUENCE)) + 1] = CHORD_SEQUENCE[1]
                /\ out.index = getSectionForBar(0).index
                /\ out.offset = 8
        /\ (arg.bar < 16) => (out.index = 0)
        /\ (arg.bar = 16)
             => /\ CHORD_SEQUENCE[(16 % Len(CHORD_SEQUENCE)) + 1] = CHORD_SEQUENCE[1]
                /\ out.index = 1

C18_Witness ==
  /\ fn = "getSectionForBar"
  /\ done
  /\ arg.bar = 8
  /\ out = [index |-> 0, offset |-> 8, isSectionStart |-> FALSE]

\* C19 as stated: for every lead event index idx >= 0, also idx >=
\* chord.lead.length, triggerLead plays chord.lead[idx mod chord.lead.length]
\* and raises no error.
C19_Original ==
  (fn = "triggerLead" /\ done /\ arg.ready)
     => /\ out.played
        /\ out.note = LEAD[arg.chord][(arg.idx % Len(LEAD[arg.chord])) + 1]
        /\ ~out.threw

\* C19 amended: triggerLead plays chord.lead[min(idx, chord.lead.length - 1)]:
\* an index past the end is clamped to the last note; the note is that of idx
\* mod length exactly when idx < length; no error is raised.
C19_Amended ==
  (fn = "triggerLead" /\ done /\ arg.ready)
     => LET lead == LEAD[arg.chord] IN
        /\ out.played
        /\ out.note = (IF arg.idx < Len(lead) THEN lead[arg.idx + 1] ELSE lead[Len(lead)])
        /\ out.note # "undefined"
        /\ (arg.idx < Len(lead)) => out.note = lead[(arg.idx % Len(lead)) + 1]
        /\ ~out.threw

C19_Witness ==
  /\ fn = "triggerLead"
  /\ done
  /\ arg = [chord |-> "fm9", idx |-> 7, ready |-> TRUE]
  /\ out.note = "C6"

\* C20: for every integer degree, negative or >= n included, Piano's
\* resolveDegree returns chord.piano[degree mod n] with the non-negative modulo
\* (n = length of chord.piano), returns 'C4' when the list is empty or absent,
\* and does not throw.
C20_DegreeWraps ==
  (fn = "resolveDegree" /\ done /\ arg.degree.str = "")
     => LET chord == PIANO_CHORD_LIBRARY[arg.chord]
            n == IF chord.hasPiano THEN Len(chord.piano) ELSE 0
        IN /\ ~out.threw
           /\ out.note = (IF n = 0 THEN "C4"
                          ELSE chord.piano[(arg.degree.num % n) + 1])

C20_Witness ==
  /\ fn = "resolveDegree"
  /\ done
  /\ arg = [chord |-> "dm9", degree |-> [str |-> "", num |-> -7]]
  /\ out = [note |-> "A5", threw |-> FALSE]

\* C22: setSwing(x) stores max(0, min(0.75, x)) for every numeric x and 0 for
\* every value that does not convert to a number; after any setSwing call the
\* swing amount lies in [0, 0.75].
C22_SetSwingClamps ==
  (fn = "setSwing" /\ done)
     => /\ swing = (IF ~arg.isNum THEN 0
                    ELSE IF arg.v < 0 THEN 0
                    ELSE IF arg.v > 15 THEN 15
                    ELSE arg.v)
        /\ 0 <= swing
        /\ 20 * swing <= 15 * SwingDen

C22_Witness ==
  /\ fn = "setSwing"
  /\ done
  /\ arg = [isNum |-> TRUE, v |-> 20]
  /\ swing = 15

\* C23 as stated: stop() resets the scheduler state; after stop() getState()
\* reports current16th = 0 and barCount = 0, the position of the stopped run
\* is not retained.
C23_Original ==
  [][lastOp' = "stop" => (getState.current16th = 0 /\ getState.barCount = 0)']_vars

\* C23 amended: stop() only clears the polling timer; getState() reports after
\* stop() what it reported before, the position of the stopped run included,
\* and it is start() on a stopped scheduler that sets current16th and
\* barCount to 0.
C23_Amended ==
  [][/\ lastOp' = "stop" => (getState' = getState /\ timerId' = 0)
     /\ (lastOp' = "start" /\ timerId = 0)
          => (getState.current16th = 0 /\ getState.barCount = 0)']_vars

C23_Witness ==
  /\ lastOp = "stop"
  /\ timerId = 0
  /\ getState.barCount = 1
  /\ getState.current16th > 0

----------------------------------------------------------------------------
(* C27: a deferred stop armed by the terminal fade of one run never stops a
   later run: whenever a fired setTimeout callback clears the interval timer
   of a running scheduler, the run it stops is one that scheduled a fade
   itself.  fadeCount is reset by play(), so a timeout that stops a run whose
   fadeCount is 0 was armed by an earlier run. *)
C27_NoStaleStop ==
  [][(lastOp' = "timeout" /\ timers # {} /\ timers' = {}) => fadeCount > 0]_vars

----------------------------------------------------------------------------
(* C29: once Techno's terminal fade has been scheduled, the master gain's
   automation target stays the fade target 0.0001 for as long as the
   scheduler's timer is armed; in particular moving the energy slider during
   the fade does not replace it. *)
C29_FadeTargetHeld ==
  (app = "techno" /\ fadeScheduledRef /\ timers # {}) => masterTarget = MasterFade

----------------------------------------------------------------------------
(* Properties of Techno's triggers *)

\* the poll that produced this state delivered slot `slot` of a bar; the
\* section handleSixteenth read is the one recorded in used
PolledSection == SECTIONS[used[1].index + 1]

\* what a director with every instrument loaded and the playing flag up
\* attempts for the callbacks cs, starting from the refs of this state
FullPlays(cs) ==
  liveDirector([liveRefs EXCEPT !.loaded = Roles, !.playingRef = TRUE], cs, 1).plays

(* C30: in Techno every slot delivered between play() and stop() with
   slot mod 4 = 0 produces its kick, whatever the order of the first poll
   after play() and the effect that raises playingRef. *)
C30_KickOnEveryBeat ==
  \A i \in 1..Len(calls) :
    (calls[i].cb = "onSixteenth" /\ calls[i].slot % 4 = 0)
      => \E j \in 1..Len(plays) : /\ plays[j].role = "kick"
                                  /\ plays[j].slot = calls[i].slot
                                  /\ plays[j].bar = calls[i].bar
                                  /\ plays[j].played

(* C21: a trigger whose instrument has not finished loading returns without
   playing; the triggers of the same callbacks are the ones a fully loaded
   director attempts, in the same order, and each is played exactly when the
   playing flag is up and its instrument (if it needs one) is loaded at that
   poll; the poll advances the scheduler by its slot all the same. *)
C21_SkipWhenNotLoaded ==
  [][lastOp' = "poll" =>
       LET full == FullPlays(calls')
       IN /\ Len(plays') = Len(full)
          /\ \A i \in 1..Len(full) :
               plays'[i] = [full[i] EXCEPT !.played =
                              playingRef /\ (full[i].role \in Roles
                                               => full[i].role \in loaded)]
          /\ current16th' = (current16th + 1) % 16
          /\ barCount' = IF current16th = 15 THEN barCount + 1 ELSE barCount
          /\ timerId' = timerId]_vars

\* slot 12 of bar 16: the kick and the lead event are played, the bass event
\* is skipped because its instrument is still loading
C21_Witness ==
  /\ lastOp = "poll"
  /\ "bass" \notin loaded
  /\ "lead" \in loaded
  /\ Len(plays) = 3
  /\ plays[1].role = "kick" /\ plays[1].played
  /\ plays[2].role = "bass" /\ ~plays[2].played
  /\ plays[3].role = "lead" /\ plays[3].played /\ plays[3].bar = 16

(* C25: every amplitude handed to a trigger is computed from the energy and
   bus level refs as they stand at the poll that constructs the event, for
   every interleaving of slider moves with polls. *)
C25_AmplitudesReadLive ==
  \A i \in 1..Len(plays) :
    LET p == plays[i]
        e == levelRefs.energy
    IN CASE p.role = "kick" -> p.amp = PolledSection.kick * (850 + e * 3)
         [] p.role = "bass" ->
              \E k \in 1..Len(BASS_PATTERNS[PolledSection.bassPattern]) :
                LET ev == BASS_PATTERNS[PolledSection.bassPattern][k]
                IN /\ ev.step = p.slot
                   /\ p.amp = PolledSection.bass * (170 + e) * levelRefs.bass * ev.vel
         [] p.role = "lead" ->
              p.amp = PolledSection.lead * (1400 + e * 13) * levelRefs.lead
                        * LEAD_PATTERNS[PolledSection.leadPattern][p.slot + 1].vel
         [] p.role = "pad" ->
              p.amp = SECTIONS[arrangementState.index + 1].pad * levelRefs.pad

\* a bass event of 'Warm Build' played after the energy and bass sliders moved
C25_Witness ==
  /\ lastOp = "poll"
  /\ levelRefs.energy = 100
  /\ levelRefs.bass = 50
  /\ \E i \in 1..Len(plays) :
       /\ plays[i].role = "bass"
       /\ plays[i].played
       /\ plays[i].slot = 8
       /\ plays[i].amp = 45 * 270 * 50 * 85

\* the trigger instructions that reached an instrument or a voice
Emitted(ps) == SelectSeq(ps, LAMBDA p : p.played)

\* the refs a run holds when it is about to deliver the callbacks cs, having
\* delivered every slot since play() with the playing flag up
ReferenceRefs(cs) ==
  LET bar == cs[1].bar
      slot == cs[1].slot
      seen == IF slot = 0 THEN bar - 1 ELSE bar
  IN [liveRefs EXCEPT
        !.playingRef = TRUE,
        !.arrangementState = IF seen < 0 THEN [index |-> 0, offset |-> 0]
                             ELSE getSectionForBar(seen),
        !.chordRef = IF seen < 0 THEN CHORD_SEQUENCE[1]
                     ELSE chordFor(CHORD_SEQUENCE, seen)]

(* C26: with the random draws fixed, what a Techno run emits for a slot is a
   function of the slot's position, the bpm, the slider values and the
   instruments loaded: it equals what the run that has had its playing flag
   up since play() emits for that slot, so two runs over the same bars emit
   the same ordered trigger instructions. *)
C26_RunsAgree ==
  lastOp = "poll"
    => Emitted(plays) = Emitted(liveDirector(ReferenceRefs(calls), calls, 1).plays)

----------------------------------------------------------------------------
(* Properties of App *)

(* C24: App's onBar re-chooses the progression on exactly every 16th bar
   callback since play and on no other step, and each time the new pool index
   differs from the one in use before, whatever Math.random() draws. *)
C24_ChangeEverySixteen ==
  [][(progIdxRef' # progIdxRef)
       <=> (barCallbacks' = barCallbacks + 1
              /\ barCallbacks' % CHANGE_EVERY_BARS = 0)]_vars

\* the second change of a run: 32 bar callbacks since play
C24_Witness ==
  /\ lastOp = "poll"
  /\ barCallbacks = 2 * CHANGE_EVERY_BARS
  /\ barsSinceChangeRef = 2 * CHANGE_EVERY_BARS
  /\ progIdxRef = 2

(* C28: in App at most one scheduler has an armed interval at any time, for
   every interleaving of toggle() invocations, and after Pause none has. *)
C28_OneScheduler ==
  /\ Cardinality(timers) <= 1
  /\ lastOp = "stop" => timers = {}

(* C31: in the App with the Bass check box, every bar callback issues the
   bass trigger exactly when Bass is switched on in the state the component
   shows at that callback: after Bass is switched off no later bar of the run
   gets a bass trigger, and after it is switched on again they resume. *)
C31_BassFollowsToggle ==
  (lastOp = "poll" /\ NumBars(calls) > 0)
    => (bassOn <=> \E i \in 1..Len(plays) : plays[i].role = "bass")

----------------------------------------------------------------------------
(* Properties of the scheduler under arbitrary options *)

(* C32: every poll terminates, for every bpm the scheduler can hold and any
   finite clock reading.  The loop runs while nextNoteTime < now + look-ahead
   with now fixed, so it terminates exactly when every iteration moves
   nextNoteTime forward: each iteration of the emission loop leaves
   nextNoteTime strictly later than it found it. *)
C32_LoopAdvances ==
  [][lastOp' = "iter" => nextNoteTime' > nextNoteTime]_vars

(* C33: in every state in which the scheduler emits a slot, the swing amount
   lies in [0, 0.75], however it was supplied, and so the time handed to
   onSixteenth is at or after the slot's grid time and earlier than the grid
   time of the next slot. *)
C33_SwingInRange ==
  [][(lastOp' = "iter" /\ bpm \in 1..(Infinity - 1)) =>
       LET c == Sixteenths(calls')[Len(Sixteenths(calls'))]
       IN /\ 0 <= swing
          /\ 4 * swing <= 3 * SwingDen
          /\ nextNoteTime <= c.time
          /\ c.time < nextNoteTime']_vars

====
